---- MODULE Spec2Model ----
(***************************************************************************)
(* The fitness dashboard.  The trace overlay store (charts.js): addTrace,   *)
(* renderCharts, clearTraces, getTracesLength, with the two aggregation    *)
(* queries each addTrace call issues against the metrics view.  The        *)
(* activity cards (map.js): parseWKT, sample, generateSparkline, createMap *)
(* and renderWorkoutCards.  Start-up (main.js, db.js, ui.js).              *)
(*                                                                         *)
(* Encodings.  A calendar date 'YYYY-MM-DD' is the integer YYYYMMDD, which *)
(* orders like the ISO string; the empty string of a date input is         *)
(* EmptyDate.  The text of the max-watts control is a sequence: <<>> for   *)
(* the empty text, <<n>> for the digits of n.  A mean or a sum of hours is *)
(* the exact fraction <<numerator, denominator>>.  A number computed for a *)
(* sparkline is a record: an exact fraction n/d, or NaN, or an infinity;   *)
(* the text Number.toFixed(1) makes of it is its count of tenths.          *)
(***************************************************************************)
EXTENDS Integers, Sequences, FiniteSets, TLC

VARIABLES
    metrics,        \* rows of the metrics view (fixed once loaded)
    maxWattsInput,  \* the 'max-watts' control of the page
    traces,         \* charts.js: let traces
    distTraces,     \* charts.js: let distTraces
    charts,         \* what Plotly.newPlot last drew, per chart element
    pending,        \* addTrace calls suspended at their await, oldest first
    firstAfterClear,\* a clear happened and nothing was appended since
    ev,             \* the last step: the operation, its arguments, its outputs
    stream,         \* a sensor stream of a route (watts_stream, hr_stream)
    shift,          \* a constant the stream is compared with itself shifted by
    out,            \* what sample or generateSparkline last returned
    geometry,       \* the wkt_geometry text of a route
    svgPath,        \* what wktToSvgPath returned for it
    routes,         \* rows of the workout_routes data set
    grid,           \* the 'workout-grid' element: its text and its cards
    render,         \* the renderWorkoutCards pass: where it stands, cardData
    maps,           \* the createMap calls made, in the order they were made
    console,        \* what console.warn and console.error were given
    main,           \* the start-up function of main.js: where it stands
    net,            \* how the fetch of each data set is answered
    db,             \* db.js: the files registered, conn, the views created
    status,         \* the loading panel and its status text
    listeners       \* the add and clear buttons have their click listeners

storeVars == <<metrics, maxWattsInput, traces, distTraces, charts, pending,
               firstAfterClear, ev>>
streamVars == <<stream, shift, out, geometry, svgPath>>
cardVars == <<routes, grid, render, maps, console>>
mainVars == <<main, net, db, status, listeners>>

vars == <<storeVars, streamVars, cardVars, mainVars>>

----------------------------------------------------------------------------
(* Bounds of the model *)

MaxTraces == 2
MaxPending == 2
MaxCycleTraces == 9
MaxCyclePending == 2
MaxRows == 2

----------------------------------------------------------------------------
(* Program constants *)

COLORS == << "#3b82f6", "#ef4444", "#10b981", "#f59e0b", "#8b5cf6",
             "#ec4899", "#06b6d4", "#f97316" >>

BucketWidth == 5
HrLow == 40
HrHigh == 210
DefaultMaxWatts == 400
SecondsPerHour == 3600
EmptyDate == 0

NoElement == [present |-> FALSE, value |-> <<>>]
InputWith(v) == [present |-> TRUE, value |-> v]

----------------------------------------------------------------------------
(* Sequences and sums *)

Min(S) == CHOOSE a \in S : \A b \in S : a <= b

RECURSIVE Ascending(_)
Ascending(S) == IF S = {} THEN <<>> ELSE <<Min(S)>> \o Ascending(S \ {Min(S)})

RECURSIVE SumOver(_, _)
SumOver(R, col) ==
    IF R = {} THEN 0
    ELSE LET r == CHOOSE r \in R : TRUE
         IN  (IF col = "heartrate" THEN r.heartrate ELSE r.duration_seconds)
             + SumOver(R \ {r}, col)

----------------------------------------------------------------------------
(* The two aggregation queries *)

\* (variant: ROUND in place of FLOOR)
WattBucketRounded(w) == ((w + 2) \div BucketWidth) * BucketWidth

\* CAST(FLOOR(watts / 5) * 5 AS INTEGER)
WattBucket(w) == (w \div BucketWidth) * BucketWidth

\* WHERE date >= start AND date <= end AND watts <= maxWatts
InRange(r, startDate, endDate, maxWatts) ==
    /\ r.date >= startDate
    /\ r.date <= endDate
    /\ r.watts <= maxWatts

\* AND heartrate > 40 AND heartrate < 210
HrInBand(r) == r.heartrate > HrLow /\ r.heartrate < HrHigh

FitnessRows(m, startDate, endDate, maxWatts) ==
    {r \in m : InRange(r, startDate, endDate, maxWatts) /\ HrInBand(r)}

\* (variant: the distribution query keeps the heart-rate filter)
DistRowsInBand(m, startDate, endDate, maxWatts) ==
    {r \in m : InRange(r, startDate, endDate, maxWatts) /\ HrInBand(r)}

\* the distribution query has no heart-rate condition
DistRows(m, startDate, endDate, maxWatts) ==
    {r \in m : InRange(r, startDate, endDate, maxWatts)}

\* GROUP BY watt_bucket ORDER BY watt_bucket
GroupOrder(R) == Ascending({WattBucket(r.watts) : r \in R})

Group(R, b) == {r \in R : WattBucket(r.watts) = b}

\* the result table of the fitness query, as its two columns
fitnessQuery(m, startDate, endDate, maxWatts) ==
    LET R == FitnessRows(m, startDate, endDate, maxWatts)
        B == GroupOrder(R)
    IN  [watt_bucket |-> B,
         avg_hr |-> [i \in DOMAIN B |->
                       <<SumOver(Group(R, B[i]), "heartrate"),
                         Cardinality(Group(R, B[i]))>>]]

\* the result table of the distribution query, as its two columns
distQuery(m, startDate, endDate, maxWatts) ==
    LET R == DistRows(m, startDate, endDate, maxWatts)
        B == GroupOrder(R)
    IN  [watt_bucket |-> B,
         hours |-> [i \in DOMAIN B |->
                       <<SumOver(Group(R, B[i]), "duration_seconds"),
                         SecondsPerHour>>]]

\* (variant: an empty control counts as no ceiling)
ReadMaxWattsOrDefault(el) ==
    IF el.present /\ el.value # <<>> THEN el.value ELSE <<DefaultMaxWatts>>

\* maxWattsInput ? maxWattsInput.value : 400
ReadMaxWatts(el) == IF el.present THEN el.value ELSE <<DefaultMaxWatts>>

\* the query text is well formed only when a number was spliced after 'watts <='
QueryParses(maxWatts) == maxWatts # <<>>

----------------------------------------------------------------------------
(* The store *)

\* (variant: the colour taken after the push)
ColorForNext(n) == COLORS[((n + 1) % Len(COLORS)) + 1]

\* COLORS[traces.length % COLORS.length]
ColorFor(n) == COLORS[(n % Len(COLORS)) + 1]

FitnessTrace(res, label, color) ==
    [x |-> res.watt_bucket, y |-> res.avg_hr, name |-> label,
     color |-> color, width |-> 3, fill |-> "none"]

DistTrace(res, label, color) ==
    [x |-> res.watt_bucket, y |-> res.hours, name |-> label,
     color |-> color, width |-> 2, fill |-> "tozeroy"]

\* Plotly.newPlot(id, data, layout)
NewPlot(c, id, data, layout) ==
    [c EXCEPT ![id] = [data |-> data, layout |-> layout]]

\* (variant: the distribution chart is not drawn again)
renderChartsFitnessOnly(c, tr, dtr) ==
    NewPlot(c, "fitness-chart", tr, "fitnessLayout")

\* renderCharts(): both charts from the two lists
renderCharts(c, tr, dtr) ==
    NewPlot(NewPlot(c, "fitness-chart", tr, "fitnessLayout"),
            "distribution-chart", dtr, "distLayout")

getTracesLength == Len(traces)

Queries == {"fitness", "dist"}
BothPlots == <<"fitness-chart", "distribution-chart">>
NoAlert == <<>>

Args(label, startDate, endDate, silent) ==
    [label |-> label, startDate |-> startDate, endDate |-> endDate,
     silent |-> silent]

NoArgs == Args("", EmptyDate, EmptyDate, FALSE)

\* What is remembered of a call: the store's length when it was made, whether
\* the store was cleared since, whether a younger call's trace is in the store.
NoHist == [k |-> 0, preClear |-> FALSE, overtaken |-> FALSE]

NoCall == [args |-> NoArgs, maxWatts |-> <<>>,
           q |-> [n \in Queries |-> "unissued"], hist |-> NoHist]

\* What the last step was and what it put out: the operation, its arguments,
\* the alert shown, the queries issued, the charts plotted, how the call
\* stands, the call as it was before the step, and whether the step is the
\* first append since a clear.
Event(op, args, alert, issued, plots, outcome, call, first) ==
    [op |-> op, args |-> args, alert |-> alert, issued |-> issued,
     plots |-> plots, outcome |-> outcome, call |-> call, first |-> first]

----------------------------------------------------------------------------
(* addTrace, up to its await *)

\* (variant: only the start date is looked at)
InvalidRangeStartOnly(startDate, endDate) == startDate = EmptyDate

\* if (!startDate || !endDate)
InvalidRange(startDate, endDate) == startDate = EmptyDate \/ endDate = EmptyDate

\* if (!silent) alert("Please select start and end dates")
InvalidRangeAlert(silent) ==
    IF silent THEN NoAlert ELSE <<"Please select start and end dates">>

\* the two conn.query calls handed to Promise.all, in the order they are made
IssuedQueries == <<"fitness", "dist">>

NewCall(label, startDate, endDate, silent) ==
    [args |-> Args(label, startDate, endDate, silent),
     maxWatts |-> ReadMaxWatts(maxWattsInput),
     q |-> [n \in Queries |->
              IF \E i \in DOMAIN IssuedQueries : IssuedQueries[i] = n
              THEN "pending" ELSE "unissued"],
     hist |-> [k |-> Len(traces), preClear |-> FALSE, overtaken |-> FALSE]]

addTrace(label, startDate, endDate, silent) ==
    LET a == Args(label, startDate, endDate, silent) IN
    /\ IF InvalidRange(startDate, endDate)
       THEN /\ ev' = Event("addTrace", a, InvalidRangeAlert(silent), <<>>, <<>>,
                           "returned", NoCall, FALSE)
            /\ UNCHANGED pending
       ELSE /\ pending' = Append(pending, NewCall(label, startDate, endDate, silent))
            /\ ev' = Event("addTrace", a, NoAlert, IssuedQueries, <<>>,
                           "suspended",
                           NewCall(label, startDate, endDate, silent), FALSE)
    /\ UNCHANGED <<metrics, maxWattsInput, traces, distTraces, charts,
                   firstAfterClear>>

----------------------------------------------------------------------------
(* addTrace, from the await on: the queries settle *)

Without(p, i) == SubSeq(p, 1, i - 1) \o SubSeq(p, i + 1, Len(p))

\* the calls made before call i now have a younger call's trace in the store
Overtake(p, i) ==
    [j \in DOMAIN p |->
        IF j < i THEN [p[j] EXCEPT !.hist.overtaken = TRUE] ELSE p[j]]

\* (variant: Promise.race, the first result lets the call go on)
JoinedAny(call, q) == TRUE

\* Promise.all: fulfilled once every query handed to it is fulfilled
Joined(call, q) == \A o \in Queries \ {q} : call.q[o] = "resolved"

\* if (!silent) alert(`No data found for this range: ${label}`)
EmptyResultAlert(call) ==
    IF call.args.silent THEN NoAlert
    ELSE <<"No data found for this range: ", call.args.label>>

\* (variant: the distribution result is the one tested)
EmptyResultDist(fitnessRes, distRes) == Len(distRes.watt_bucket) = 0

\* fitnessWatts.length === 0
EmptyResult(fitnessRes, distRes) == Len(fitnessRes.watt_bucket) = 0

\* (variant: unshift in place of push)
UnshiftTrace(tr, fitnessRes, label, color) ==
    <<FitnessTrace(fitnessRes, label, color)>> \o tr

\* traces.push({...})
PushTrace(tr, fitnessRes, label, color) ==
    Append(tr, FitnessTrace(fitnessRes, label, color))

\* (variant: the distribution entry is put at the front of its list)
UnshiftDistTrace(dtr, distRes, label, color) ==
    <<DistTrace(distRes, label, color)>> \o dtr

\* distTraces.push({...})
PushDistTrace(dtr, distRes, label, color) ==
    Append(dtr, DistTrace(distRes, label, color))

\* (variant: traces.length read before the await)
StoreSizeAtCall(call) == call.hist.k

\* traces.length, read when the call goes on after its await
StoreSize(call) == Len(traces)

\* ${maxWatts} as spliced into the text of query q of a call: both texts
\* are built from the one constant read at the call
QueryCeiling(call, q) == call.maxWatts

\* the rest of addTrace once both results are in, for the call at place i
Continue(i) ==
    LET call       == pending[i]
        fitnessRes == fitnessQuery(metrics, call.args.startDate,
                                   call.args.endDate,
                                   QueryCeiling(call, "fitness")[1])
        distRes    == distQuery(metrics, call.args.startDate,
                                call.args.endDate,
                                QueryCeiling(call, "dist")[1])
        color      == ColorFor(StoreSize(call))
        tr         == PushTrace(traces, fitnessRes, call.args.label, color)
        dtr        == PushDistTrace(distTraces, distRes, call.args.label, color)
    IN
    IF EmptyResult(fitnessRes, distRes)
    THEN /\ ev' = Event("settle", call.args, EmptyResultAlert(call),
                        <<>>, <<>>, "empty", call, FALSE)
         /\ pending' = Without(pending, i)
         /\ UNCHANGED <<traces, distTraces, charts, firstAfterClear>>
    ELSE /\ traces' = tr
         /\ distTraces' = dtr
         /\ charts' = renderCharts(charts, tr, dtr)
         /\ firstAfterClear' = FALSE
         /\ pending' = Without(Overtake(pending, i), i)
         /\ ev' = Event("settle", call.args, NoAlert, <<>>, BothPlots,
                        "appended", call, firstAfterClear)

QuerySettles(i, q, ok) ==
    /\ i \in DOMAIN pending
    /\ pending[i].q[q] = "pending"
    /\ ok => QueryParses(QueryCeiling(pending[i], q))
    /\ IF ~ok
       THEN \* Promise.all rejects, and with it the addTrace call
            /\ pending' = Without(pending, i)
            /\ ev' = Event("settle", pending[i].args, NoAlert, <<>>, <<>>,
                           "rejected", pending[i], FALSE)
            /\ UNCHANGED <<traces, distTraces, charts, firstAfterClear>>
       ELSE IF Joined(pending[i], q)
       THEN Continue(i)
       ELSE /\ pending' = [pending EXCEPT ![i].q[q] = "resolved"]
            /\ ev' = Event("settle", pending[i].args, NoAlert, <<>>, <<>>,
                           "waiting", pending[i], FALSE)
            /\ UNCHANGED <<traces, distTraces, charts, firstAfterClear>>
    /\ UNCHANGED <<metrics, maxWattsInput>>

----------------------------------------------------------------------------
(* clearTraces *)

\* (variant: a clear drops the calls still pending)
Cancelled(p) == <<>>

\* clearTraces leaves the pending calls to go on: they have seen a clear, and
\* the traces that overtook them are gone
SeenClear(p) ==
    [j \in DOMAIN p |->
        [p[j] EXCEPT !.hist.preClear = TRUE, !.hist.overtaken = FALSE]]

\* (variant: the list is left as it is)
Kept(list) == list

\* traces = []; distTraces = []
Emptied(list) == <<>>

clearTraces ==
    /\ traces' = Emptied(traces)
    /\ distTraces' = Emptied(distTraces)
    /\ charts' = NewPlot(NewPlot(charts, "fitness-chart", <<>>, "{}"),
                         "distribution-chart", <<>>, "{}")
    /\ firstAfterClear' = TRUE
    /\ pending' = SeenClear(pending)
    /\ ev' = Event("clearTraces", NoArgs, NoAlert, <<>>, BothPlots, "returned",
                   NoCall, FALSE)
    /\ UNCHANGED <<metrics, maxWattsInput>>

----------------------------------------------------------------------------
(* Sensor streams of a card (map.js): sample and generateSparkline *)

SampleTarget == 150
SparkWidth == 300
SparkHeight == 40
PowerColor == "#93c5fd"
HrColor == "#fca5a5"

\* a number: the exact fraction n/d with d > 0, or NaN, or an infinity
Num(n, d) == [kind |-> "num", n |-> n, d |-> d]
NaN == [kind |-> "NaN", n |-> 0, d |-> 1]
Infinity(sign) == [kind |-> "Infinity", n |-> sign, d |-> 1]

\* a / b of two integers: 0/0 is NaN, a/0 an infinity with the sign of a
Divide(a, b) ==
    IF b = 0 THEN (IF a = 0 THEN NaN ELSE Infinity(IF a > 0 THEN 1 ELSE -1))
    ELSE IF b < 0 THEN Num(-a, -b) ELSE Num(a, b)

\* x * k for an integer k > 0
Times(x, k) == IF x.kind = "num" THEN Num(x.n * k, x.d) ELSE x

\* k - x for an integer k
MinusFrom(k, x) ==
    IF x.kind = "num" THEN Num(k * x.d - x.n, x.d)
    ELSE IF x.kind = "Infinity" THEN Infinity(-x.n) ELSE x

Abs(a) == IF a < 0 THEN -a ELSE a

\* x.toFixed(1): the tenths nearest to x, the larger of two equally near, the
\* sign kept apart; "NaN" and the infinities print as their names
ToFixed1(x) ==
    IF x.kind = "num"
    THEN [text |-> "fixed",
          tenths |-> (IF x.n < 0 THEN -1 ELSE 1)
                       * ((20 * Abs(x.n) + x.d) \div (2 * x.d))]
    ELSE [text |-> x.kind, tenths |-> x.n]

\* (variant: Math.floor in place of Math.ceil)
FloorDiv(a, b) == a \div b

\* Math.ceil(a / b), a and b positive integers
Ceil(a, b) == (a + b - 1) \div b

\* arr.filter((_, i) => i % step === 0) over the 0-based indices lo..hi: each
\* index is tested, the values that pass are kept in order
RECURSIVE EveryStep(_, _, _, _)
EveryStep(arr, lo, hi, step) ==
    IF lo > hi THEN <<>>
    ELSE IF lo = hi THEN (IF lo % step = 0 THEN <<arr[lo + 1]>> ELSE <<>>)
    ELSE LET mid == (lo + hi) \div 2
         IN  EveryStep(arr, lo, mid, step) \o EveryStep(arr, mid + 1, hi, step)

\* (variant: the step is the quotient rounded to the nearest integer)
sampleNearestStep(arr, target) ==
    IF Len(arr) <= target THEN arr
    ELSE EveryStep(arr, 0, Len(arr) - 1,
                   (2 * Len(arr) + target) \div (2 * target))

\* const sample = (arr, target) => ...
sample(arr, target) ==
    IF Len(arr) <= target THEN arr
    ELSE EveryStep(arr, 0, Len(arr) - 1, Ceil(Len(arr), target))

Max(S) == CHOOSE a \in S : \A b \in S : a >= b

Values(data) == {data[i] : i \in DOMAIN data}

\* (variant: the range is taken as it is)
RangeAsIs(min, max) == max - min

\* max - min || 1
RangeOrOne(min, max) == IF max - min # 0 THEN max - min ELSE 1

\* (variant: the index over the number of samples)
SparkXOverLength(i, n, width) == Times(Divide(i, n), width)

\* (i / (data.length - 1)) * width, i counted from 0
SparkX(i, n, width) == Times(Divide(i, n - 1), width)

\* (variant: the value itself over the range)
SparkYAbsolute(val, min, range, height) ==
    MinusFrom(height, Times(Divide(val, range), height))

\* height - ((val - min) / range) * height
SparkY(val, min, range, height) ==
    MinusFrom(height, Times(Divide(val - min, range), height))

\* the numbers x and y of every point of a non-empty stream, before toFixed
SparkPositions(data, width, height) ==
    LET min   == Min(Values(data))
        max   == Max(Values(data))
        range == RangeOrOne(min, max)
    IN  [i \in DOMAIN data |->
            [x |-> SparkX(i - 1, Len(data), width),
             y |-> SparkY(data[i], min, range, height)]]

NoMarkup == [tag |-> "", points |-> <<>>, stroke |-> ""]

\* generateSparkline(data, width, height, color): "" for an empty stream,
\* else a polyline whose points are the texts `${x.toFixed(1)},${y.toFixed(1)}`
generateSparkline(data, width, height, color) ==
    IF Len(data) = 0 THEN NoMarkup
    ELSE LET pos == SparkPositions(data, width, height)
         IN  [tag |-> "polyline",
              points |-> [i \in DOMAIN data |->
                            <<ToFixed1(pos[i].x), ToFixed1(pos[i].y)>>],
              stroke |-> color]

\* the stream with c added to every value
Shifted(data, c) == [i \in DOMAIN data |-> data[i] + c]

NoOutput == [op |-> "none", arg |-> <<>>, res |-> <<>>, pos |-> <<>>,
             line |-> NoMarkup, shifted |-> NoMarkup]

\* sample(stream, 150)
Sample ==
    /\ out' = [NoOutput EXCEPT !.op = "sample", !.arg = stream,
                               !.res = sample(stream, SampleTarget)]
    /\ UNCHANGED <<stream, shift, geometry, svgPath>>

\* generateSparkline(sample(stream, 150), 300, 40, color), for the stream and
\* for the stream shifted
Sparkline ==
    LET wattsSample == sample(stream, SampleTarget)
        other       == sample(Shifted(stream, shift), SampleTarget)
    IN
    /\ out' = [NoOutput EXCEPT
                 !.op = "generateSparkline", !.arg = wattsSample,
                 !.pos = IF Len(wattsSample) = 0 THEN <<>>
                         ELSE SparkPositions(wattsSample, SparkWidth, SparkHeight),
                 !.line = generateSparkline(wattsSample, SparkWidth,
                                            SparkHeight, PowerColor),
                 !.shifted = generateSparkline(other, SparkWidth,
                                               SparkHeight, PowerColor)]
    /\ UNCHANGED <<stream, shift, geometry, svgPath>>

----------------------------------------------------------------------------
(* Text of a route's geometry (map.js): parseWKT *)

\* a text is the sequence of its words and signs, or null
NullText == [null |-> TRUE, text |-> <<>>]
Text(t) == [null |-> FALSE, text |-> t]

Undefined == [kind |-> "undefined", n |-> 0, d |-> 1]
Null == [kind |-> "null", n |-> 0, d |-> 1]

DigitWords == {"1", "2", "3", "4"}

WordValue(w) == CASE w = "1" -> 1 [] w = "2" -> 2 [] w = "3" -> 3 [] OTHER -> 4

\* Number(s), s a text without spaces: 0 for the empty text, NaN for what is
\* not the digits of a number
NumberOf(piece) ==
    IF piece = <<>> THEN Num(0, 1)
    ELSE IF Len(piece) = 1 /\ piece[1] \in DigitWords
         THEN Num(WordValue(piece[1]), 1)
         ELSE NaN

PlacesOf(s, t) == {i \in DOMAIN s : s[i] = t}

\* s.startsWith(t)
StartsWith(s, t) == Len(s) >= 1 /\ s[1] = t

\* s.indexOf(t), s.lastIndexOf(t): counted from 0, -1 when t is not in s
IndexOf(s, t) == IF PlacesOf(s, t) = {} THEN -1 ELSE Min(PlacesOf(s, t)) - 1
LastIndexOf(s, t) == IF PlacesOf(s, t) = {} THEN -1 ELSE Max(PlacesOf(s, t)) - 1

Clamp(i, n) == IF i < 0 THEN 0 ELSE IF i > n THEN n ELSE i

\* s.substring(a, b): both ends brought into 0..length, the lesser first
Substring(s, a, b) ==
    LET x == Clamp(a, Len(s))
        y == Clamp(b, Len(s))
    IN  SubSeq(s, (IF x <= y THEN x ELSE y) + 1, IF x <= y THEN y ELSE x)

\* s.split(sep): the empty text gives one empty piece
RECURSIVE Split(_, _)
Split(s, sep) ==
    IF PlacesOf(s, sep) = {} THEN <<s>>
    ELSE LET i == Min(PlacesOf(s, sep))
         IN  <<SubSeq(s, 1, i - 1)>> \o Split(SubSeq(s, i + 1, Len(s)), sep)

\* s.trim()
RECURSIVE Trim(_)
Trim(s) ==
    IF s # <<>> /\ s[1] = " " THEN Trim(Tail(s))
    ELSE IF s # <<>> /\ s[Len(s)] = " " THEN Trim(SubSeq(s, 1, Len(s) - 1))
    ELSE s

\* const [x, y] = p.trim().split(' ').map(Number); return [x, y]
ParsePoint(p) ==
    LET parts == Split(Trim(p), " ")
    IN  <<NumberOf(parts[1]),
          IF Len(parts) >= 2 THEN NumberOf(parts[2]) ELSE Undefined>>

\* (variant: a text the points cannot be read from gives no point)
parseWKTStrict(wkt) ==
    IF wkt.null \/ wkt.text = <<>> \/ ~StartsWith(wkt.text, "LINESTRING") THEN <<>>
    ELSE LET content == Substring(wkt.text, IndexOf(wkt.text, "(") + 1,
                                  LastIndexOf(wkt.text, ")"))
             pieces  == Split(content, ",")
             points  == [i \in DOMAIN pieces |-> ParsePoint(pieces[i])]
         IN  IF \A i \in DOMAIN points :
                    points[i][1].kind = "num" /\ points[i][2].kind = "num"
             THEN points ELSE <<>>

\* parseWKT(wkt)
parseWKT(wkt) ==
    IF wkt.null \/ wkt.text = <<>> \/ ~StartsWith(wkt.text, "LINESTRING") THEN <<>>
    ELSE LET content == Substring(wkt.text, IndexOf(wkt.text, "(") + 1,
                                  LastIndexOf(wkt.text, ")"))
             pieces  == Split(content, ",")
         IN  [i \in DOMAIN pieces |-> ParsePoint(pieces[i])]

----------------------------------------------------------------------------
(* Static path of a route's geometry (legacy cards): wktToSvgPath *)

PathWidth == 300
PathHeight == 120
PathStroke == "#22d3ee"

RECURSIVE Gcd(_, _)
Gcd(a, b) == IF b = 0 THEN a ELSE Gcd(b, a % b)

\* the number n/d, d not 0, as a fraction in lowest terms
Frac(n, d) ==
    LET g == Gcd(Abs(n), Abs(d))
    IN  IF d < 0 THEN Num((-n) \div g, (-d) \div g) ELSE Num(n \div g, d \div g)

\* the number an operand of an arithmetic operator or a comparison stands
\* for: undefined is NaN, null is 0
ToNumber(x) ==
    IF x.kind = "undefined" THEN NaN
    ELSE IF x.kind = "null" THEN Num(0, 1) ELSE x

SignOf(x) == IF x.n > 0 THEN 1 ELSE IF x.n < 0 THEN -1 ELSE 0

\* a + b
Sum(a0, b0) ==
    LET a == ToNumber(a0)
        b == ToNumber(b0)
    IN  IF a.kind = "NaN" \/ b.kind = "NaN" THEN NaN
        ELSE IF a.kind = "Infinity"
             THEN (IF b.kind = "Infinity" /\ b.n # a.n THEN NaN ELSE a)
        ELSE IF b.kind = "Infinity" THEN b
        ELSE Frac(a.n * b.d + b.n * a.d, a.d * b.d)

\* -a
Negative(a0) ==
    LET a == ToNumber(a0)
    IN  IF a.kind = "NaN" THEN NaN
        ELSE IF a.kind = "Infinity" THEN Infinity(-a.n) ELSE Num(-a.n, a.d)

\* a - b
Difference(a, b) == Sum(a, Negative(b))

\* a * b
Product(a0, b0) ==
    LET a == ToNumber(a0)
        b == ToNumber(b0)
    IN  IF a.kind = "NaN" \/ b.kind = "NaN" THEN NaN
        ELSE IF a.kind = "Infinity" \/ b.kind = "Infinity"
             THEN (IF SignOf(a) * SignOf(b) = 0 THEN NaN
                   ELSE Infinity(SignOf(a) * SignOf(b)))
        ELSE Frac(a.n * b.n, a.d * b.d)

\* a / b (the zeros this is used with are positive zeros)
Quotient(a0, b0) ==
    LET a == ToNumber(a0)
        b == ToNumber(b0)
    IN  IF a.kind = "NaN" \/ b.kind = "NaN" THEN NaN
        ELSE IF a.kind = "Infinity"
             THEN (IF b.kind = "Infinity" THEN NaN
                   ELSE Infinity(IF b.n < 0 THEN -a.n ELSE a.n))
        ELSE IF b.kind = "Infinity" THEN Num(0, 1)
        ELSE IF b.n = 0
             THEN (IF a.n = 0 THEN NaN ELSE Infinity(SignOf(a)))
        ELSE Frac(a.n * b.d, a.d * b.n)

\* a < b: false when either is NaN
Less(a0, b0) ==
    LET a == ToNumber(a0)
        b == ToNumber(b0)
    IN  IF a.kind = "NaN" \/ b.kind = "NaN" THEN FALSE
        ELSE IF a.kind = "Infinity"
             THEN a.n < 0 /\ ~(b.kind = "Infinity" /\ b.n < 0)
        ELSE IF b.kind = "Infinity" THEN b.n > 0
        ELSE a.n * b.d < b.n * a.d

\* (variant: the range is taken as it is)
OrItself(x) == x

\* x || 1, x a number: 1 for 0 and for NaN
OrOne(x) ==
    IF x.kind = "NaN" \/ (x.kind = "num" /\ x.n = 0) THEN Num(1, 1) ELSE x

\* content.split(',').map(p => { const [x, y] = ...; return { x, y } })
PathPoints(wkt) ==
    LET content == Substring(wkt.text, IndexOf(wkt.text, "(") + 1,
                             LastIndexOf(wkt.text, ")"))
        pieces  == Split(content, ",")
    IN  [i \in DOMAIN pieces |->
            [x |-> ParsePoint(pieces[i])[1], y |-> ParsePoint(pieces[i])[2]]]

EmptyBox == [minX |-> Infinity(1), maxX |-> Infinity(-1),
             minY |-> Infinity(1), maxY |-> Infinity(-1)]

\* points.forEach(p => { if (p.x < minX) minX = p.x; ... }) from point i on
RECURSIVE BoundingBox(_, _, _)
BoundingBox(points, i, box) ==
    IF i > Len(points) THEN box
    ELSE LET p == points[i]
         IN  BoundingBox(points, i + 1,
                [minX |-> IF Less(p.x, box.minX) THEN p.x ELSE box.minX,
                 maxX |-> IF Less(box.maxX, p.x) THEN p.x ELSE box.maxX,
                 minY |-> IF Less(p.y, box.minY) THEN p.y ELSE box.minY,
                 maxY |-> IF Less(box.maxY, p.y) THEN p.y ELSE box.maxY])

\* const paddingX = (maxX - minX) * 0.05; minX -= paddingX; maxX += paddingX
Padded(box) ==
    LET paddingX == Product(Difference(box.maxX, box.minX), Num(1, 20))
        paddingY == Product(Difference(box.maxY, box.minY), Num(1, 20))
    IN  [minX |-> Difference(box.minX, paddingX),
         maxX |-> Sum(box.maxX, paddingX),
         minY |-> Difference(box.minY, paddingY),
         maxY |-> Sum(box.maxY, paddingY)]

\* the box after padding, both ranges, and sx and sy of every point, before
\* toFixed
PathPositions(points, width, height) ==
    LET box    == Padded(BoundingBox(points, 1, EmptyBox))
        rangeX == OrOne(Difference(box.maxX, box.minX))
        rangeY == OrOne(Difference(box.maxY, box.minY))
    IN  [box |-> box, rangeX |-> rangeX, rangeY |-> rangeY,
         at |-> [i \in DOMAIN points |->
                   [sx |-> Product(Quotient(Difference(points[i].x, box.minX),
                                            rangeX),
                                   Num(width, 1)),
                    sy |-> Difference(Num(height, 1),
                              Product(Quotient(Difference(points[i].y, box.minY),
                                               rangeY),
                                      Num(height, 1)))]]]

NoPathMarkup == [tag |-> "", d |-> <<>>, stroke |-> ""]

\* wktToSvgPath(wkt, width, height): "" or a path whose d is the texts
\* `${i === 0 ? 'M' : 'L'} ${sx.toFixed(1)} ${sy.toFixed(1)}`
wktToSvgPath(wkt, width, height) ==
    IF wkt.null \/ wkt.text = <<>> \/ ~StartsWith(wkt.text, "LINESTRING")
    THEN NoPathMarkup
    ELSE LET points == PathPoints(wkt)
             pos    == PathPositions(points, width, height)
         IN  IF Len(points) = 0 THEN NoPathMarkup
             ELSE [tag |-> "path",
                   d |-> [i \in DOMAIN points |->
                            <<IF i = 1 THEN "M" ELSE "L",
                              ToFixed1(pos.at[i].sx), ToFixed1(pos.at[i].sy)>>],
                   stroke |-> PathStroke]

NoPath == [done |-> FALSE, points |-> <<>>, pos |-> <<>>, res |-> NoPathMarkup]

\* const svgPath = wktToSvgPath(row.wkt_geometry, 300, 120)
StaticPath ==
    LET drawn == ~(geometry.null \/ geometry.text = <<>>
                     \/ ~StartsWith(geometry.text, "LINESTRING"))
    IN
    /\ svgPath' = [done |-> TRUE,
                   points |-> IF drawn THEN PathPoints(geometry) ELSE <<>>,
                   pos |-> IF drawn
                           THEN PathPositions(PathPoints(geometry), PathWidth,
                                              PathHeight)
                           ELSE <<>>,
                   res |-> wktToSvgPath(geometry, PathWidth, PathHeight)]
    /\ UNCHANGED <<stream, shift, out, geometry>>

----------------------------------------------------------------------------
(* Activity cards (map.js): createMap and renderWorkoutCards; what main.js *)
(* does when renderWorkoutCards returns                                    *)

CardLimit == 25

NoRouteData == "No route data available."

\* a stream column of a row: a list of numbers or null
NullStream == [null |-> TRUE, values |-> <<>>]
Stream(v) == [null |-> FALSE, values |-> v]

\* row.watts_stream ? Array.from(row.watts_stream) : []
ArrayFrom(st) == IF st.null THEN <<>> ELSE st.values

\* v || 0 for a number or null
OrZero(v) == IF v.kind = "num" /\ v.n # 0 THEN v ELSE Num(0, 1)

\* Math.round(x): the integer nearest to x, the greater of two equally near
Round(x) == (2 * x.n + x.d) \div (2 * x.d)

RECURSIVE Descending(_)
Descending(S) == IF S = {} THEN <<>> ELSE <<Max(S)>> \o Descending(S \ {Max(S)})

\* SELECT ... FROM routes ORDER BY date DESC LIMIT 25, as result.toArray()
routesQuery(rows) ==
    LET dates == Descending({r.date : r \in rows})
        all   == [i \in DOMAIN dates |-> CHOOSE r \in rows : r.date = dates[i]]
    IN  SubSeq(all, 1, IF Len(all) < CardLimit THEN Len(all) ELSE CardLimit)

\* the card made of a row at the (0-based) index of the row
Card(row, index) ==
    [id |-> index,
     title |-> row.activity_name,
     date |-> row.date,
     hours |-> ToFixed1(Divide(row.duration_seconds, SecondsPerHour)),
     watts |-> Round(OrZero(row.avg_watts)),
     hr |-> Round(OrZero(row.avg_hr)),
     powerLine |-> generateSparkline(sample(ArrayFrom(row.watts_stream), SampleTarget),
                                     SparkWidth, SparkHeight, PowerColor),
     hrLine |-> generateSparkline(sample(ArrayFrom(row.hr_stream), SampleTarget),
                                  SparkWidth, SparkHeight, HrColor)]

\* (variant: only the card of the first route is made before the maps)
CardsFirstOnly(result) ==
    SubSeq([i \in DOMAIN result |-> Card(result[i], i - 1)], 1, 1)

\* routes.forEach: the cards in the order of the rows
Cards(result) == [i \in DOMAIN result |-> Card(result[i], i - 1)]

\* (variant: every card is queued for a map)
CardDataAll(result) ==
    [i \in DOMAIN result |->
        [id |-> i - 1, coords |-> parseWKT(result[i].wkt_geometry)]]

\* routes.forEach: if (coords.length > 0) cardData.push({ id: cardId, coords })
CardData(result) ==
    SelectSeq([i \in DOMAIN result |->
                 [id |-> i - 1, coords |-> parseWKT(result[i].wkt_geometry)]],
              LAMBDA d : Len(d.coords) > 0)

InitialGrid == [text |-> "initial", cards |-> <<>>]
NoPass == [pc |-> "idle", cardData |-> <<>>, k |-> 0]
\* the pass has returned (what cardData held is kept for the record)
Returned(r) == [r EXCEPT !.pc = "returned"]

Logged(level, what) == [level |-> level, what |-> what]

\* setLoading(isLoading, message)
setLoading(st, isLoading, message) ==
    [st EXCEPT !.loading = isLoading,
               !.text = IF message # "" THEN message ELSE @]

\* main.js, from the return of renderWorkoutCards to the await in getBounds:
\* UI.setLoading(false), then the bounds query is issued
AfterRenderWorkoutCards ==
    /\ main.pc = "renderWorkoutCards"
    /\ status' = setLoading(status, FALSE, "")
    /\ main' = [main EXCEPT !.pc = "getBounds"]

\* (variant: the queue is gone through from its end)
NextCardFromEnd(r) == r.cardData[Len(r.cardData) - r.k]

\* for (const data of cardData): the entry after the k already gone through
NextCard(r) == r.cardData[r.k + 1]

\* (variant: no map is begun once a map has failed)
createMapUnlessFailed(m, id, coords) ==
    IF Len(coords) = 0 \/ \E j \in DOMAIN m : m[j].state = "failed" THEN m
    ELSE Append(m, [id |-> id, coords |-> coords, state |-> "applying"])

\* createMap(target, coordinates), up to its await on olms.apply
createMap(m, id, coords) ==
    IF Len(coords) = 0 THEN m
    ELSE Append(m, [id |-> id, coords |-> coords, state |-> "applying"])

\* renderWorkoutCards, up to its await on the query
renderWorkoutCards ==
    /\ render.pc = "idle"
    /\ render' = [NoPass EXCEPT !.pc = "query"]

\* renderWorkoutCards from the result of its query on: the cards, then the
\* first createMap and the first yield
CardsQuerySettles(ok) ==
    /\ render.pc = "query"
    /\ ok => "routes" \in db.views
    /\ IF ~ok
       THEN \* catch (e): console.error("Error rendering workout cards:", e)
            /\ console' = Append(console,
                                 Logged("error", "Error rendering workout cards:"))
            /\ render' = Returned(render)
            /\ AfterRenderWorkoutCards
            /\ UNCHANGED <<grid, maps>>
       ELSE LET result   == routesQuery(routes)
                cardData == CardData(result)
            IN  IF Len(result) = 0
                THEN /\ grid' = [text |-> NoRouteData, cards |-> <<>>]
                     /\ render' = Returned(render)
                     /\ AfterRenderWorkoutCards
                     /\ UNCHANGED <<maps, console>>
                ELSE /\ grid' = [text |-> "", cards |-> Cards(result)]
                     /\ UNCHANGED console
                     /\ IF Len(cardData) = 0
                        THEN /\ render' = Returned(render)
                             /\ AfterRenderWorkoutCards
                             /\ UNCHANGED maps
                        ELSE LET first == NextCard([NoPass EXCEPT
                                                      !.cardData = cardData])
                             IN
                             /\ maps' = createMap(maps, first.id, first.coords)
                             /\ render' = [pc |-> "yield", cardData |-> cardData,
                                           k |-> 1]
                             /\ UNCHANGED <<main, status>>
    /\ UNCHANGED <<routes, net, db, listeners>>

\* the timer of the yield fires: the next createMap, which is not awaited,
\* and the next yield; or the end of the pass
TimerFires ==
    /\ render.pc = "yield"
    /\ IF render.k < Len(render.cardData)
       THEN /\ maps' = createMap(maps, NextCard(render).id,
                                 NextCard(render).coords)
            /\ render' = [render EXCEPT !.k = @ + 1]
            /\ UNCHANGED <<main, status>>
       ELSE /\ render' = Returned(render)
            /\ AfterRenderWorkoutCards
            /\ UNCHANGED maps
    /\ UNCHANGED <<routes, grid, console, net, db, listeners>>

\* olms.apply of the j-th createMap settles: the route layer is added and the
\* view fitted, or the call fails and .catch(e => console.error(e)) logs it
StyleSettles(j, ok) ==
    /\ j \in DOMAIN maps
    /\ maps[j].state = "applying"
    /\ IF ok
       THEN /\ maps' = [maps EXCEPT ![j].state = "ready"]
            /\ UNCHANGED console
       ELSE /\ maps' = [maps EXCEPT ![j].state = "failed"]
            /\ console' = Append(console, Logged("error", "createMap"))
    /\ UNCHANGED <<routes, grid, render, main, net, db, status, listeners>>

\* no pass, no start-up
NoCards ==
    /\ routes = {}
    /\ grid = InitialGrid
    /\ render = NoPass
    /\ maps = <<>>
    /\ console = <<>>

NoMainRun == [pc |-> "off", i |-> 0, min |-> EmptyDate, max |-> EmptyDate,
              err |-> ""]

NoMain ==
    /\ main = NoMainRun
    /\ net = [metrics |-> "ok", routes |-> "ok"]
    /\ db = [instantiated |-> FALSE, registered |-> {}, conn |-> FALSE, views |-> {}]
    /\ status = [loading |-> TRUE, text |-> "", color |-> ""]
    /\ listeners = FALSE

----------------------------------------------------------------------------
(* Start-up: main.js with initDuckDB, loadData, getBounds of db.js and     *)
(* setLoading, setError, setDateInputs, setupEventListeners of ui.js       *)

CurrentYear == 2024
DefaultYears == 3

MetricsFile == "fitness_metrics.parquet"
RoutesFile == "workout_routes.parquet"
MetricsFetchError == "Failed to fetch fitness_metrics.parquet"
RoutesFetchWarning == "Failed to fetch workout_routes.parquet"

\* how a fetch is answered: with a good status, with a bad status, or not
FetchOutcomes == {"ok", "notok", "rejected"}

\* setError(message)
setError(st, message) ==
    [st EXCEPT !.text = "Error: " \o message, !.color = "red"]

Goes(to) == main' = [main EXCEPT !.pc = to]

\* catch (err) { UI.setError(err.message) }
Fails(message) ==
    /\ main' = [main EXCEPT !.pc = "failed", !.err = message]
    /\ status' = setError(status, message)
    /\ console' = Append(console, Logged("error", message))

\* an await of initDuckDB or loadData that does nothing else is over
Awaited(from, to, ok, message) ==
    /\ main.pc = from
    /\ IF ok THEN Goes(to) /\ UNCHANGED <<status, console>>
       ELSE Fails(message)

mainOnly == <<storeVars, streamVars, routes, grid, maps, net>>

\* duckdb.selectBundle settles: the worker and db are made, db.instantiate
selectBundleSettles(ok) ==
    /\ Awaited("selectBundle", "instantiate", ok, "selectBundle")
    /\ UNCHANGED <<db, render, listeners, mainOnly>>

\* db.instantiate settles: initDuckDB returns, main.js sets "Loading Data...",
\* loadData sets "Loading Parquet Data..." and fetches the metrics file
instantiateSettles(ok) ==
    /\ main.pc = "instantiate"
    /\ IF ok
       THEN /\ Goes("fetchMetrics")
            /\ db' = [db EXCEPT !.instantiated = TRUE]
            /\ status' = [setLoading(status, TRUE, "Loading Data...")
                            EXCEPT !.text = "Loading Parquet Data..."]
            /\ UNCHANGED console
       ELSE Fails("instantiate") /\ UNCHANGED db
    /\ UNCHANGED <<render, listeners, mainOnly>>

\* (variant: only a fetch that is not answered at all stops loadData)
FetchThrowsOnReject(outcome) == outcome = "rejected"

\* await fetch(...) rejects, or if (!fitRes.ok) throw new Error(...)
FetchThrows(outcome) == outcome # "ok"

\* the fetch of the metrics file settles
fetchMetricsSettles ==
    /\ main.pc = "fetchMetrics"
    /\ IF FetchThrows(net.metrics)
       THEN Fails(IF net.metrics = "notok" THEN MetricsFetchError
                  ELSE "Failed to fetch")
       ELSE Goes("metricsBuffer") /\ UNCHANGED <<status, console>>
    /\ UNCHANGED <<db, render, listeners, mainOnly>>

\* fitRes.arrayBuffer() settles: db.registerFileBuffer
metricsBufferSettles(ok) ==
    /\ Awaited("metricsBuffer", "registerMetrics", ok, "arrayBuffer")
    /\ UNCHANGED <<db, render, listeners, mainOnly>>

\* registerFileBuffer settles: the routes file is fetched
registerMetricsSettles(ok) ==
    /\ Awaited("registerMetrics", "fetchRoutes", ok, "registerFileBuffer")
    /\ db' = IF ok THEN [db EXCEPT !.registered = @ \cup {MetricsFile}] ELSE db
    /\ UNCHANGED <<render, listeners, mainOnly>>

\* (variant: a bad status of the routes file stops loadData as well)
RoutesFetchThrowsNotOk(outcome) == outcome # "ok"

\* await fetch(...) rejects; if (!routeRes.ok) only console.warn
RoutesFetchThrows(outcome) == outcome = "rejected"

\* the fetch of the routes file settles: with a bad status a warning, and on
\* to db.connect
fetchRoutesSettles ==
    /\ main.pc = "fetchRoutes"
    /\ CASE RoutesFetchThrows(net.routes) -> Fails("Failed to fetch")
         [] net.routes = "ok" ->
                Goes("routesBuffer") /\ UNCHANGED <<status, console>>
         [] OTHER ->
                /\ console' = Append(console, Logged("warn", RoutesFetchWarning))
                /\ Goes("connect")
                /\ UNCHANGED status
    /\ UNCHANGED <<db, render, listeners, mainOnly>>

\* routeRes.arrayBuffer() settles: db.registerFileBuffer
routesBufferSettles(ok) ==
    /\ Awaited("routesBuffer", "registerRoutes", ok, "arrayBuffer")
    /\ UNCHANGED <<db, render, listeners, mainOnly>>

\* registerFileBuffer settles: db.connect
registerRoutesSettles(ok) ==
    /\ Awaited("registerRoutes", "connect", ok, "registerFileBuffer")
    /\ db' = IF ok THEN [db EXCEPT !.registered = @ \cup {RoutesFile}] ELSE db
    /\ UNCHANGED <<render, listeners, mainOnly>>

\* db.connect settles: conn is set, CREATE VIEW metrics
connectSettles(ok) ==
    /\ Awaited("connect", "createMetrics", ok, "connect")
    /\ db' = IF ok THEN [db EXCEPT !.conn = TRUE] ELSE db
    /\ UNCHANGED <<render, listeners, mainOnly>>

\* loadData returns and main.js calls renderWorkoutCards
LoadDataReturns ==
    /\ Goes("renderWorkoutCards")
    /\ renderWorkoutCards
    /\ UNCHANGED <<status, console>>

\* CREATE VIEW metrics settles: if (routeRes.ok) CREATE VIEW routes
createMetricsSettles(ok) ==
    /\ main.pc = "createMetrics"
    /\ IF ~ok THEN Fails("CREATE VIEW metrics") /\ UNCHANGED <<db, render>>
       ELSE /\ db' = [db EXCEPT !.views = @ \cup {"metrics"}]
            /\ IF net.routes = "ok"
               THEN Goes("createRoutes") /\ UNCHANGED <<status, console, render>>
               ELSE LoadDataReturns
    /\ UNCHANGED <<listeners, mainOnly>>

\* CREATE VIEW routes settles
createRoutesSettles(ok) ==
    /\ main.pc = "createRoutes"
    /\ IF ~ok THEN Fails("CREATE VIEW routes") /\ UNCHANGED <<db, render>>
       ELSE /\ db' = [db EXCEPT !.views = @ \cup {"routes"}]
            /\ LoadDataReturns
    /\ UNCHANGED <<listeners, mainOnly>>

\* CAST(MIN(date) AS VARCHAR), CAST(MAX(date) AS VARCHAR): null of no rows
MinDate(m) == IF m = {} THEN EmptyDate ELSE Min({r.date : r \in m})
MaxDate(m) == IF m = {} THEN EmptyDate ELSE Max({r.date : r \in m})

\* (variant: the earliest of the years first)
YearArgsAscending(i) ==
    Args(ToString(CurrentYear - (DefaultYears - 1 - i)),
         (CurrentYear - (DefaultYears - 1 - i)) * 10000 + 101,
         (CurrentYear - (DefaultYears - 1 - i)) * 10000 + 1231, TRUE)

\* `${year}`, `${year}-01-01`, `${year}-12-31`, the year being currentYear - i
YearArgs(i) ==
    Args(ToString(CurrentYear - i), (CurrentYear - i) * 10000 + 101,
         (CurrentYear - i) * 10000 + 1231, TRUE)

\* await addTrace(`${year}`, startDate, endDate, true), up to the await in it
DefaultTrace(i, m) ==
    /\ addTrace(YearArgs(i).label, YearArgs(i).startDate, YearArgs(i).endDate,
                YearArgs(i).silent)
    /\ main' = [m EXCEPT !.pc = "addTrace", !.i = i]

\* UI.setupEventListeners({...}): the end of the start-up
setupEventListeners(m) ==
    /\ listeners' = TRUE
    /\ main' = [m EXCEPT !.pc = "done"]

\* the bounds query settles: the date inputs are set; the first default
\* trace is asked for if there is a least date, else the listeners are set
getBoundsSettles(ok) ==
    /\ main.pc = "getBounds"
    /\ IF ~ok
       THEN /\ Fails("getBounds")
            /\ UNCHANGED <<storeVars, listeners>>
       ELSE LET bounds == [main EXCEPT !.min = MinDate(metrics),
                                        !.max = MaxDate(metrics)]
            IN  /\ UNCHANGED <<status, console>>
                /\ IF bounds.min # EmptyDate
                   THEN DefaultTrace(0, bounds) /\ UNCHANGED listeners
                   ELSE setupEventListeners(bounds) /\ UNCHANGED storeVars
    /\ UNCHANGED <<db, render, streamVars, routes, grid, maps, net>>

\* a query of an addTrace call settles; a call of the start-up that is over
\* lets main.js go on, a call of the start-up that fails ends it
QuerySettlesApp(i, q, ok) ==
    /\ QuerySettles(i, q, ok)
    /\ IF main.pc = "addTrace"
       THEN CASE ev'.outcome = "waiting" -> UNCHANGED <<main, status, console>>
              [] ev'.outcome = "rejected" -> Fails("query")
              [] OTHER -> Goes("resume") /\ UNCHANGED <<status, console>>
       ELSE UNCHANGED <<main, status, console>>
    /\ UNCHANGED <<db, render, listeners, streamVars, routes, grid, maps, net>>

\* main.js goes on after an await addTrace: the next year, or the listeners
MainResumes ==
    /\ main.pc = "resume"
    /\ IF main.i + 1 < DefaultYears
       THEN DefaultTrace(main.i + 1, main) /\ UNCHANGED listeners
       ELSE setupEventListeners(main) /\ UNCHANGED storeVars
    /\ UNCHANGED <<status, console, db, render, streamVars, routes, grid,
                   maps, net>>

\* a continuation of main.js is due: it runs before any other event
Resuming == main.pc = "resume"

\* (variant: the size of the store itself is the number of the label)
AutoLabelFromSize(label) ==
    IF label = "" \/ label = "Trace"
    THEN "Trace " \o ToString(getTracesLength) ELSE label

\* if (!label || label === "Trace") label = "Trace " + (getTracesLength() + 1)
AutoLabel(label) ==
    IF label = "" \/ label = "Trace"
    THEN "Trace " \o ToString(getTracesLength + 1) ELSE label

\* the click listener of the add button and the onAddTrace it calls
ClickAddTrace(value, start, end) ==
    LET label == IF value # "" THEN value ELSE "Trace"
    IN  /\ listeners
        /\ addTrace(AutoLabel(label), start, end, FALSE)
        /\ UNCHANGED <<streamVars, cardVars, mainVars>>

\* the click listener of the clear button
ClickClearTraces ==
    /\ listeners
    /\ clearTraces
    /\ UNCHANGED <<streamVars, cardVars, mainVars>>

----------------------------------------------------------------------------
(* The rows and the inputs the specifications draw from *)

Row(date, watts, heartrate, duration_seconds) ==
    [date |-> date, watts |-> watts, heartrate |-> heartrate,
     duration_seconds |-> duration_seconds]

Unplotted == [id \in {"fitness-chart", "distribution-chart"} |->
                [data |-> <<>>, layout |-> "unplotted"]]

InitStore ==
    /\ traces = <<>>
    /\ distTraces = <<>>
    /\ charts = Unplotted
    /\ pending = <<>>
    /\ firstAfterClear = FALSE
    /\ ev = Event("init", NoArgs, NoAlert, <<>>, <<>>, "returned", NoCall, FALSE)

\* no stream is looked at
NoStream ==
    /\ stream = <<>>
    /\ shift = 0
    /\ out = NoOutput
    /\ geometry = NullText
    /\ svgPath = NoPath

\* what a step on the store leaves alone
notStore == <<streamVars, cardVars, mainVars>>

\* a call is made while fewer than maxPending calls are pending and the
\* traces stored and still to come are fewer than maxTraces
CanCall(maxTraces, maxPending) ==
    /\ Len(pending) < maxPending
    /\ Len(traces) + Len(pending) < maxTraces

----------------------------------------------------------------------------
(* Spec: overlapping calls and clears on one data set *)

StoreRows == { Row(20240310, 3, 150, 1800), Row(20240310, 7, 40, 3600),
               Row(20240720, 14, 210, 7200) }

\* the arguments of the calls: a range with rows in the heart-rate band (one
\* call silent), a range whose only row is outside the band (one call
\* silent), a call with no start date and a silent call with no end date
StoreArgs ==
    { Args("A", 20240101, 20240630, FALSE), Args("B", 20240101, 20240630, TRUE),
      Args("C", 20240701, 20241231, FALSE), Args("C", 20240701, 20241231, TRUE),
      Args("D", EmptyDate, 20240630, FALSE), Args("E", 20240101, EmptyDate, TRUE) }

Init ==
    /\ metrics = StoreRows
    /\ maxWattsInput = NoElement
    /\ InitStore
    /\ NoStream
    /\ NoCards
    /\ NoMain

Next ==
    \/ \E a \in StoreArgs :
          /\ CanCall(MaxTraces, MaxPending)
          /\ addTrace(a.label, a.startDate, a.endDate, a.silent)
          /\ UNCHANGED notStore
    \/ \E i \in DOMAIN pending, q \in Queries, ok \in BOOLEAN :
          QuerySettles(i, q, ok) /\ UNCHANGED notStore
    \/ clearTraces /\ UNCHANGED notStore

Spec == Init /\ [][Next]_vars

----------------------------------------------------------------------------
(* SpecCycle: enough calls on one range to go round the palette *)

CycleArgs == { Args("A", 20240101, 20240630, TRUE) }

NextCycle ==
    \/ \E a \in CycleArgs :
          /\ CanCall(MaxCycleTraces, MaxCyclePending)
          /\ addTrace(a.label, a.startDate, a.endDate, a.silent)
          /\ UNCHANGED notStore
    \/ \E i \in DOMAIN pending, q \in Queries, ok \in BOOLEAN :
          QuerySettles(i, q, ok) /\ UNCHANGED notStore
    \/ clearTraces /\ UNCHANGED notStore

SpecCycle == Init /\ [][NextCycle]_vars

----------------------------------------------------------------------------
(* SpecAgg: single calls over every small data set, date range and ceiling *)

RowPool ==
    { Row(20240310, 3, 150, 1800),  Row(20240310, 7, 40, 3600),
      Row(20240720, 9, 120, 600),   Row(20240720, 14, 210, 7200),
      Row(20230505, 402, 160, 900), Row(20240101, 400, 209, 60) }

AggDates == {EmptyDate, 20240101, 20240310, 20241231}
AggLabels == {"A"}
AggMaxWattsInputs == {NoElement, InputWith(<<>>), InputWith(<<7>>)}

\* one call at a time, each on an empty store
Idle == pending = <<>> /\ traces = <<>>

InitAgg ==
    /\ metrics \in {m \in SUBSET RowPool : Cardinality(m) <= MaxRows}
    /\ maxWattsInput \in AggMaxWattsInputs
    /\ InitStore
    /\ NoStream
    /\ NoCards
    /\ NoMain

NextAgg ==
    \/ \E l \in AggLabels, s \in AggDates, e \in AggDates, sil \in BOOLEAN :
          /\ Idle
          /\ addTrace(l, s, e, sil)
          /\ UNCHANGED notStore
    \/ \E i \in DOMAIN pending, q \in Queries, ok \in BOOLEAN :
          QuerySettles(i, q, ok) /\ UNCHANGED notStore
    \/ clearTraces /\ UNCHANGED notStore

SpecAgg == InitAgg /\ [][NextAgg]_vars

----------------------------------------------------------------------------
(* SpecStreams: sample and generateSparkline over streams *)

MaxStreamLen == 301
MaxSparkLen == 3

\* the values of the short streams
SparkValues == {0, 3, 7}

Shifts == {-3, 250}

\* every stream of up to MaxSparkLen values, and for every greater length up
\* to MaxStreamLen the stream whose value at (0-based) index i is i
StreamPool ==
    UNION {[1..n -> SparkValues] : n \in 0..MaxSparkLen}
    \cup {[i \in 1..n |-> i - 1] : n \in (MaxSparkLen + 1)..MaxStreamLen}

notStream == <<storeVars, cardVars, mainVars>>

InitStreams ==
    /\ metrics = {}
    /\ maxWattsInput = NoElement
    /\ InitStore
    /\ stream \in StreamPool
    /\ shift \in Shifts
    /\ out = NoOutput
    /\ geometry = NullText
    /\ svgPath = NoPath
    /\ NoCards
    /\ NoMain

NextStreams ==
    \/ Sample /\ UNCHANGED notStream
    \/ Sparkline /\ UNCHANGED notStream

SpecStreams == InitStreams /\ [][NextStreams]_vars

----------------------------------------------------------------------------
(* SpecCards: one pass of renderWorkoutCards over small route sets *)

MaxRoutes == 3

LineString12_34 ==
    Text(<<"LINESTRING", " ", "(", "1", " ", "2", ",", " ", "3", " ", "4", ")">>)
LineString31_42 ==
    Text(<<"LINESTRING", "(", "3", " ", "1", ",", "4", " ", "2", ")">>)
PointText == Text(<<"POINT", " ", "(", "1", " ", "2", ")">>)
LineStringAbc == Text(<<"LINESTRING", " ", "(", "abc", ")">>)
LineStringBare == Text(<<"LINESTRING">>)

RouteRow(name, date, wkt, watts, hr, avgWatts, avgHr, seconds) ==
    [activity_name |-> name, date |-> date, wkt_geometry |-> wkt,
     watts_stream |-> watts, hr_stream |-> hr, avg_watts |-> avgWatts,
     avg_hr |-> avgHr, duration_seconds |-> seconds]

\* routes of different dates: two with a line string, one with a point, one
\* with no geometry, two whose text begins as a line string and goes wrong
RoutePool ==
    { RouteRow("ride", 20240105, LineString12_34, Stream(<<0, 3, 7>>),
               Stream(<<7, 7>>), Num(3011, 20), Num(140, 1), 5400),
      RouteRow("loop", 20240212, LineString31_42, Stream(<<3>>),
               NullStream, Num(90, 1), Null, 1800),
      RouteRow("spin", 20240320, PointText, Stream(<<3, 0>>),
               Stream(<<7, 3, 0>>), Null, Num(251, 2), 3780),
      RouteRow("walk", 20240401, NullText, NullStream,
               Stream(<<0, 7>>), Num(0, 1), Num(99, 1), 600),
      RouteRow("trip", 20240515, LineStringAbc, Stream(<<7, 0, 3>>),
               Stream(<<3, 7>>), Num(200, 1), Num(150, 1), 7200),
      RouteRow("race", 20240630, LineStringBare, Stream(<<0, 7>>),
               Stream(<<3, 3>>), Num(310, 1), Num(171, 1), 3600) }

Connected(views) ==
    [instantiated |-> TRUE,
     registered |-> {"fitness_metrics.parquet"}
                    \cup (IF "routes" \in views THEN {"workout_routes.parquet"}
                          ELSE {}),
     conn |-> TRUE, views |-> views]

\* main.js has come through loadData and has called renderWorkoutCards; the
\* routes file was there, with up to MaxRoutes routes, or was not
InitCards ==
    /\ metrics = StoreRows
    /\ maxWattsInput = NoElement
    /\ InitStore
    /\ NoStream
    /\ net \in {[metrics |-> "ok", routes |-> r] : r \in {"ok", "notok"}}
    /\ routes \in {rs \in SUBSET RoutePool :
                      /\ Cardinality(rs) <= MaxRoutes
                      /\ net.routes = "notok" => rs = {}}
    /\ db = Connected(IF net.routes = "ok" THEN {"metrics", "routes"}
                      ELSE {"metrics"})
    /\ grid = InitialGrid
    /\ render = [NoPass EXCEPT !.pc = "query"]
    /\ maps = <<>>
    /\ console = IF net.routes = "ok" THEN <<>>
                 ELSE <<Logged("warn", "Failed to fetch workout_routes.parquet")>>
    /\ main = [NoMainRun EXCEPT !.pc = "renderWorkoutCards"]
    /\ status = [loading |-> TRUE, text |-> "Loading Parquet Data...", color |-> ""]
    /\ listeners = FALSE

notCards == <<storeVars, streamVars>>

NextCards ==
    \/ \E ok \in BOOLEAN : CardsQuerySettles(ok) /\ UNCHANGED notCards
    \/ TimerFires /\ UNCHANGED notCards
    \/ \E j \in DOMAIN maps, ok \in BOOLEAN :
          StyleSettles(j, ok) /\ UNCHANGED notCards

SpecCards == InitCards /\ [][NextCards]_vars

----------------------------------------------------------------------------
(* SpecApp: the start-up over the ways the two fetches are answered, and *)
(* the clicks on the add and clear buttons after it                      *)

MaxAppTraces == 3
MaxAppPending == 1

\* metrics rows of this year and of last year, none of the year before
AppRows == { Row(CurrentYear * 10000 + 310, 3, 150, 1800),
             Row((CurrentYear - 1) * 10000 + 505, 12, 160, 900) }

AppRoutes == {r \in RoutePool : r.activity_name \in {"ride", "loop"}}

\* what is typed into the label and date inputs before a click on add
ClickInputs ==
    { <<"", YearArgs(0).startDate, YearArgs(0).endDate>>,
      <<"A", YearArgs(1).startDate, YearArgs(1).endDate>>,
      <<"A", EmptyDate, YearArgs(0).endDate>> }

InitApp ==
    /\ net \in [metrics : FetchOutcomes, routes : FetchOutcomes]
    /\ metrics \in (IF net.metrics = "ok" THEN {AppRows, {}} ELSE {{}})
    /\ routes \in (IF net.routes = "ok" THEN SUBSET AppRoutes ELSE {{}})
    /\ maxWattsInput = NoElement
    /\ InitStore
    /\ NoStream
    /\ grid = InitialGrid
    /\ render = NoPass
    /\ maps = <<>>
    /\ console = <<>>
    /\ main = [NoMainRun EXCEPT !.pc = "selectBundle"]
    /\ db = [instantiated |-> FALSE, registered |-> {}, conn |-> FALSE,
             views |-> {}]
    /\ status = [loading |-> TRUE, text |-> "Initializing DuckDB-WASM...",
                 color |-> ""]
    /\ listeners = FALSE

NextApp ==
    \/ \E ok \in BOOLEAN : selectBundleSettles(ok)
    \/ \E ok \in BOOLEAN : instantiateSettles(ok)
    \/ fetchMetricsSettles
    \/ \E ok \in BOOLEAN : metricsBufferSettles(ok)
    \/ \E ok \in BOOLEAN : registerMetricsSettles(ok)
    \/ fetchRoutesSettles
    \/ \E ok \in BOOLEAN : routesBufferSettles(ok)
    \/ \E ok \in BOOLEAN : registerRoutesSettles(ok)
    \/ \E ok \in BOOLEAN : connectSettles(ok)
    \/ \E ok \in BOOLEAN : createMetricsSettles(ok)
    \/ \E ok \in BOOLEAN : createRoutesSettles(ok)
    \/ \E ok \in BOOLEAN : CardsQuerySettles(ok) /\ UNCHANGED notCards
    \/ ~Resuming /\ TimerFires /\ UNCHANGED notCards
    \/ \E j \in DOMAIN maps, ok \in BOOLEAN :
          ~Resuming /\ StyleSettles(j, ok) /\ UNCHANGED notCards
    \/ \E ok \in BOOLEAN : getBoundsSettles(ok)
    \/ \E i \in DOMAIN pending, q \in Queries, ok \in BOOLEAN :
          QuerySettlesApp(i, q, ok)
    \/ MainResumes
    \/ \E c \in ClickInputs :
          /\ CanCall(MaxAppTraces, MaxAppPending)
          /\ ClickAddTrace(c[1], c[2], c[3])
    \/ ClickClearTraces

SpecApp == InitApp /\ [][NextApp]_vars

----------------------------------------------------------------------------
(* SpecPaths: wktToSvgPath over well-formed line strings of up to *)
(* MaxPathPoints points, and over texts that are not line strings  *)

MaxPathPoints == 3

PathCoords == {"1", "2", "4"}

\* the text "LINESTRING (x y, x y, ...)" of the points pts
RECURSIVE PointsText(_)
PointsText(pts) ==
    IF Len(pts) = 0 THEN <<>>
    ELSE <<pts[1][1], " ", pts[1][2]>>
         \o (IF Len(pts) = 1 THEN <<>> ELSE <<",", " ">> \o PointsText(Tail(pts)))

LineStringOf(pts) == Text(<<"LINESTRING", " ", "(">> \o PointsText(pts) \o <<")">>)

PathPool ==
    {LineStringOf(pts) :
        pts \in UNION {[1..n -> PathCoords \X PathCoords] : n \in 1..MaxPathPoints}}
    \cup {NullText, Text(<<>>), PointText, LineStringAbc, LineStringBare,
          LineString31_42}

InitPaths ==
    /\ metrics = {}
    /\ maxWattsInput = NoElement
    /\ InitStore
    /\ stream = <<>>
    /\ shift = 0
    /\ out = NoOutput
    /\ geometry \in PathPool
    /\ svgPath = NoPath
    /\ NoCards
    /\ NoMain

NextPaths == StaticPath /\ UNCHANGED notStream

SpecPaths == InitPaths /\ [][NextPaths]_vars

----------------------------------------------------------------------------

(* SpecClicks: the page after a start-up that found rows but none in the  *)
(* three default years: the listeners are registered, the store is empty, *)
(* and the add and clear buttons are clicked in any order                  *)

MaxClickTraces == 2
MaxClickPending == 2

\* the year of the rows: before the default years
ClickYear == CurrentYear - DefaultYears - 2

ClickRows == { Row(ClickYear * 10000 + 310, 3, 150, 1800),
               Row(ClickYear * 10000 + 720, 12, 160, 900) }

\* what is typed before a click on add: no label or the label "Trace", with
\* a range that has rows; a label of the user's; no label with no start
\* date; no label with a range that has no rows
ClickPool ==
    { <<"", ClickYear * 10000 + 101, ClickYear * 10000 + 630>>,
      <<"Trace", ClickYear * 10000 + 701, ClickYear * 10000 + 1231>>,
      <<"A", ClickYear * 10000 + 101, ClickYear * 10000 + 1231>>,
      <<"", EmptyDate, ClickYear * 10000 + 630>>,
      <<"", ClickYear * 10000 + 401, ClickYear * 10000 + 430>> }

InitClicks ==
    /\ metrics = ClickRows
    /\ maxWattsInput = NoElement
    /\ InitStore
    /\ NoStream
    /\ routes = {}
    /\ grid = [text |-> NoRouteData, cards |-> <<>>]
    /\ render = Returned(NoPass)
    /\ maps = <<>>
    /\ console = <<>>
    /\ net = [metrics |-> "ok", routes |-> "ok"]
    /\ db = Connected({"metrics", "routes"})
    /\ main = [pc |-> "done", i |-> DefaultYears - 1,
               min |-> MinDate(ClickRows), max |-> MaxDate(ClickRows),
               err |-> ""]
    /\ status = [loading |-> FALSE, text |-> "Loading Parquet Data...",
                 color |-> ""]
    /\ listeners = TRUE

NextClicks ==
    \/ \E c \in ClickPool :
          /\ CanCall(MaxClickTraces, MaxClickPending)
          /\ ClickAddTrace(c[1], c[2], c[3])
    \/ \E i \in DOMAIN pending, q \in Queries, ok \in BOOLEAN :
          QuerySettlesApp(i, q, ok)
    \/ ClickClearTraces

SpecClicks == InitClicks /\ [][NextClicks]_vars

----------------------------------------------------------------------------

(* Properties *)

\* PALETTE[i mod 8], counting the palette from 0
PaletteAt(i) == COLORS[(i % 8) + 1]

LastTrace == traces[Len(traces)]
LastDistTrace == distTraces[Len(distTraces)]

\* the rows of a call that qualify for its efficiency curve
Qualifying(call) ==
    {r \in metrics : /\ call.args.startDate <= r.date
                     /\ r.date <= call.args.endDate
                     /\ r.watts <= call.maxWatts[1]
                     /\ 40 < r.heartrate /\ r.heartrate < 210}

\* the rows of a call counted in its distribution curve
InCeiling(call) ==
    {r \in metrics : /\ call.args.startDate <= r.date
                     /\ r.date <= call.args.endDate
                     /\ r.watts <= call.maxWatts[1]}

\* the step came to the end of a call with both results in
GoesOn == ev'.op = "settle" /\ ev'.outcome \notin {"waiting", "rejected"}

StoreUnchanged ==
    traces' = traces /\ distTraces' = distTraces /\ charts' = charts

\* C1: in every reachable state the trace at 0-based position i of the
\* efficiency list and of the distribution list has color PALETTE[i mod 8].
C1_ColorByPosition ==
    /\ \A i \in DOMAIN traces : traces[i].color = PaletteAt(i - 1)
    /\ \A i \in DOMAIN distTraces : distTraces[i].color = PaletteAt(i - 1)

\* C1 witness: nine traces stored (the palette has gone round), the last one
\* appended by a call made before a clear and overtaken by a younger call.
C1_Witness ==
    /\ Len(traces) = 9 /\ Len(distTraces) = 9
    /\ traces[9].color = COLORS[1]
    /\ ev.outcome = "appended"
    /\ ev.call.hist.preClear /\ ev.call.hist.overtaken

\* C2 as stated: the color of an appended trace is PALETTE[k mod 8], k the
\* number of traces in the store when addTrace was called.
C2_ColorByCallTimeSize ==
    ev.outcome = "appended" => LastTrace.color = PaletteAt(ev.call.hist.k)

\* C2 amended: the color of an appended trace is PALETTE[k mod 8], k the
\* number of traces in the store when the call's queries have both resolved
\* and the trace is appended; that is the call-time number when the store's
\* length is what it was at the call.
C2_ColorByAppendTimeSize ==
    ev.outcome = "appended" =>
        /\ Len(traces) >= 1 /\ Len(distTraces) = Len(traces)
        /\ LastTrace.color = PaletteAt(Len(traces) - 1)
        /\ LastDistTrace.color = PaletteAt(Len(traces) - 1)
        /\ (ev.call.hist.k = Len(traces) - 1
               => LastTrace.color = PaletteAt(ev.call.hist.k))

\* C2 witness: a trace appended when the store's length is no longer what it
\* was at the call.
C2_Witness ==
    /\ ev.outcome = "appended"
    /\ ev.call.hist.k # Len(traces) - 1
    /\ ~ev.call.hist.preClear

\* C3: the first trace appended after a clearTraces has PALETTE[0], whatever
\* the store held before the clear and whether its call was made before or
\* after the clear.
C3_FirstAfterClearColor ==
    (ev.outcome = "appended" /\ ev.first) =>
        /\ LastTrace.color = COLORS[1]
        /\ LastDistTrace.color = COLORS[1]

\* C3 witness: the first append after a clear, by a call made before the
\* clear when the store held eight traces.
C3_Witness ==
    /\ ev.outcome = "appended" /\ ev.first
    /\ ev.call.hist.preClear /\ ev.call.hist.k = 8
    /\ Len(traces) = 1

\* C4: addTrace with an empty start or end date issues no query, leaves both
\* lists and the charts as they are, and alerts exactly when silent is false.
C4_InvalidRangeNoOp ==
    [][ (/\ ev'.op = "addTrace"
         /\ (ev'.args.startDate = EmptyDate \/ ev'.args.endDate = EmptyDate))
        => /\ ev'.issued = <<>>
           /\ pending' = pending
           /\ StoreUnchanged
           /\ ev'.plots = <<>>
           /\ (ev'.alert # NoAlert <=> ~ev'.args.silent) ]_vars

\* C4 witness: a silent call with no end date on a store holding a trace,
\* and no alert.
C4_Witness ==
    /\ ev.op = "addTrace" /\ ev.args.endDate = EmptyDate /\ ev.args.silent
    /\ ev.alert = NoAlert
    /\ Len(traces) >= 1

\* C5: when the efficiency query of a call returns no bucket, nothing is
\* appended to either list and nothing is drawn, and the user is alerted with
\* the label exactly when silent is false.
C5_EmptyResultNoOp ==
    [][ (GoesOn /\ Qualifying(ev'.call) = {})
        => /\ StoreUnchanged
           /\ ev'.plots = <<>>
           /\ ev'.alert = IF ev'.args.silent THEN NoAlert
                          ELSE <<"No data found for this range: ",
                                 ev'.args.label>> ]_vars

\* C5 witness: an empty efficiency result while the distribution query has
\* buckets, on a store holding a trace, with the alert naming the label.
C5_Witness ==
    /\ ev.op = "settle" /\ ev.outcome = "empty"
    /\ Qualifying(ev.call) = {} /\ InCeiling(ev.call) # {}
    /\ ~ev.args.silent /\ ev.alert = <<"No data found for this range: ", "C">>
    /\ Len(traces) >= 1

\* C6: both queries of a call are issued at the call, before any result; the
\* lists and charts change through a call only at the step where its second
\* query resolves after the first has; a failed query fails the call and
\* leaves lists and charts as they are.
C6_JoinBeforeEffects ==
    [][ /\ (ev'.op = "addTrace" /\ ev'.outcome = "suspended")
            => /\ ev'.issued = <<"fitness", "dist">>
               /\ Len(pending') = Len(pending) + 1
               /\ \A n \in Queries : pending'[Len(pending')].q[n] = "pending"
               /\ StoreUnchanged
        /\ (~StoreUnchanged /\ ev'.op # "clearTraces")
            => /\ ev'.op = "settle"
               /\ \E n \in Queries :
                     /\ ev'.call.q[n] = "pending"
                     /\ \A o \in Queries \ {n} : ev'.call.q[o] = "resolved"
        /\ ev'.outcome = "rejected"
            => /\ StoreUnchanged
               /\ Len(pending') = Len(pending) - 1 ]_vars

\* C6 witness: a call fails on its second query after the first had resolved,
\* and the store still holds just what it held.
C6_Witness ==
    /\ ev.op = "settle" /\ ev.outcome = "rejected"
    /\ \E n \in Queries : ev.call.q[n] = "resolved"
    /\ Len(traces) >= 1 /\ Len(distTraces) = Len(traces)

\* C7: no later addTrace and no clearTraces takes a pending call away or
\* changes its queries, and a call whose queries both resolve with a
\* non-empty efficiency curve appends its trace at the tail.
C7_NoCancellation ==
    [][ /\ ev'.op \in {"addTrace", "clearTraces"}
            => /\ Len(pending') >= Len(pending)
               /\ \A i \in DOMAIN pending :
                     /\ pending'[i].args = pending[i].args
                     /\ pending'[i].q = pending[i].q
        /\ (GoesOn /\ Qualifying(ev'.call) # {})
            => /\ Len(traces') = Len(traces) + 1
               /\ Len(distTraces') = Len(distTraces) + 1
               /\ traces'[Len(traces')].name = ev'.args.label
               /\ distTraces'[Len(distTraces')].name = ev'.args.label ]_vars

\* C7 witness: the store holds a younger call's trace before an older call's
\* trace, both calls made before a clear that came before their completion.
C7_Witness ==
    /\ ev.outcome = "appended"
    /\ ev.call.hist.overtaken /\ ev.call.hist.preClear
    /\ Len(traces) = 2

\* C8: every step that changes a list, and every clearTraces, plots both
\* charts, and leaves the efficiency chart showing the efficiency list and
\* the distribution chart the distribution list.
C8_ChartsFollowStore ==
    [][ (\/ traces' # traces \/ distTraces' # distTraces
         \/ ev'.op = "clearTraces" \/ ev'.outcome = "appended")
        => /\ ev'.plots = <<"fitness-chart", "distribution-chart">>
           /\ charts'["fitness-chart"].data = traces'
           /\ charts'["distribution-chart"].data = distTraces' ]_vars

\* C8 witness: after an append to a store of one, both charts show two series.
C8_Witness ==
    /\ ev.outcome = "appended" /\ Len(traces) = 2
    /\ Len(charts["fitness-chart"].data) = 2
    /\ Len(charts["distribution-chart"].data) = 2

\* C9: every step leaves the store as it is, or appends one trace at the tail
\* of each list and leaves the others as they are, or empties both lists.
C9_StoreFrame ==
    [][ \/ traces' = traces /\ distTraces' = distTraces
        \/ /\ Len(traces') = Len(traces) + 1
           /\ SubSeq(traces', 1, Len(traces)) = traces
           /\ Len(distTraces') = Len(distTraces) + 1
           /\ SubSeq(distTraces', 1, Len(distTraces)) = distTraces
        \/ traces' = <<>> /\ distTraces' = <<>> ]_vars

\* C9 witness: a second trace appended behind a first of another label.
C9_Witness ==
    /\ ev.outcome = "appended" /\ Len(traces) = 2
    /\ traces[1].name # traces[2].name
    /\ traces[1].color = COLORS[1] /\ traces[2].color = COLORS[2]

\* C10: a call with at least one qualifying row (date in range, watts within
\* the ceiling, 40 < heartrate < 210) appends exactly one trace whose buckets
\* are strictly ascending, each floor(watts/5)*5 of a qualifying row, the
\* first one that of the least qualifying watts.
C10_EfficiencyBuckets ==
    [][ (GoesOn /\ Qualifying(ev'.call) # {})
        => /\ Len(traces') = Len(traces) + 1
           /\ LET x    == traces'[Len(traces')].x
                  Q    == Qualifying(ev'.call)
                  minW == CHOOSE w \in {r.watts : r \in Q} :
                             \A r \in Q : w <= r.watts
              IN  /\ Len(x) >= 1
                  /\ \A i, j \in DOMAIN x : i < j => x[i] < x[j]
                  /\ \A i \in DOMAIN x : \E r \in Q :
                        /\ x[i] % 5 = 0
                        /\ x[i] <= r.watts /\ r.watts < x[i] + 5
                  /\ x[1] % 5 = 0 /\ x[1] <= minW /\ minW < x[1] + 5 ]_vars

\* C10 witness: a trace with two buckets from two qualifying rows.
C10_Witness ==
    /\ ev.outcome = "appended"
    /\ Cardinality(Qualifying(ev.call)) = 2
    /\ Len(traces) = 1 /\ Len(traces[1].x) = 2

\* the buckets of a curve, as a set
Buckets(trace) == {trace.x[i] : i \in DOMAIN trace.x}

\* two rows fall in the same 5-watt bucket
SameBucket(r, s) ==
    \E b \in 0..(r.watts) : /\ b % 5 = 0
                            /\ b <= r.watts /\ r.watts < b + 5
                            /\ b <= s.watts /\ s.watts < b + 5

\* C11: for every trace in the store, every bucket of its efficiency curve is
\* a bucket of its distribution curve; and a trace appended by a call that has
\* a row in its date range and under its ceiling with heart rate <= 40 or
\* >= 210, in a bucket holding no in-band row of the call, has a distribution
\* bucket that is absent from its efficiency curve.
C11_DistributionSuperset ==
    [][ ev'.outcome = "appended"
        => /\ \A i \in DOMAIN traces' :
                 Buckets(traces'[i]) \subseteq Buckets(distTraces'[i])
           /\ (\E r \in InCeiling(ev'.call) :
                  /\ (r.heartrate <= 40 \/ r.heartrate >= 210)
                  /\ \A s \in Qualifying(ev'.call) : ~SameBucket(r, s))
              => \E b \in Buckets(distTraces'[Len(distTraces')]) :
                    b \notin Buckets(traces'[Len(traces')]) ]_vars

\* C11 witness: a trace whose distribution curve has the bucket of a row with
\* heart rate 40 besides the one bucket of its efficiency curve.
C11_Witness ==
    /\ ev.outcome = "appended" /\ Len(traces) = 1
    /\ \E r \in InCeiling(ev.call) : r.heartrate = 40
    /\ Buckets(traces[1]) = {0}
    /\ Buckets(distTraces[1]) = {0, 5}

\* C12 as stated: a call made while the max-watts control is absent or holds
\* no value issues both its queries with the ceiling 400, and the two queries
\* of one call have the same ceiling.
C12_DefaultCeiling ==
    [][ (ev'.op = "addTrace" /\ ev'.outcome = "suspended")
        => /\ (~maxWattsInput.present \/ maxWattsInput.value = <<>>)
                 => \A q \in Queries : QueryCeiling(ev'.call, q) = <<400>>
           /\ QueryCeiling(ev'.call, "fitness") = QueryCeiling(ev'.call, "dist")
      ]_vars

\* C12, what the code does: the two queries of a call have the same ceiling,
\* which is 400 when the control is absent and the control's text when it is
\* there; with an empty text neither query is well formed, so each settles by
\* failing and the call appends nothing.
C12_CeilingOfControl ==
    [][ /\ (ev'.op = "addTrace" /\ ev'.outcome = "suspended")
            => /\ QueryCeiling(ev'.call, "fitness") = QueryCeiling(ev'.call, "dist")
               /\ ~maxWattsInput.present
                     => \A q \in Queries : QueryCeiling(ev'.call, q) = <<400>>
               /\ maxWattsInput.present
                     => \A q \in Queries :
                           QueryCeiling(ev'.call, q) = maxWattsInput.value
        /\ (ev'.op = "settle" /\ maxWattsInput.present /\ maxWattsInput.value = <<>>)
            => /\ ev'.outcome = "rejected"
               /\ StoreUnchanged ]_vars

\* C12 witness: a call made with the control empty has failed on a query, and
\* the store holds nothing.
C12_Witness ==
    /\ maxWattsInput = InputWith(<<>>)
    /\ ev.op = "settle" /\ ev.outcome = "rejected"
    /\ ev.call.maxWatts = <<>>
    /\ traces = <<>> /\ distTraces = <<>>

\* the least stride k with k * T >= n, that is ceil(n / T)
Stride(n, T) == CHOOSE k \in 1..n : k * T >= n /\ (k - 1) * T < n

\* C13: sample with target 150 returns a stream of at most 150 values as it
\* is; of a longer stream of n values it returns, in order, just the values
\* at the 0-based indices i with i mod ceil(n/150) = 0; a stream of 301
\* values gives stride 3 and the 101 values at indices 0, 3, ..., 300.
C13_StrideDecimation ==
    out.op = "sample" =>
        LET n == Len(out.arg)
            r == out.res
        IN  /\ n <= 150 => r = out.arg
            /\ n > 150 =>
                  LET step == Stride(n, 150)
                      kept == {i \in 0..(n - 1) : i % step = 0}
                  IN  /\ Len(r) = Cardinality(kept)
                      /\ \A k \in 1..Len(r) :
                            /\ (k - 1) * step \in kept
                            /\ r[k] = out.arg[(k - 1) * step + 1]
            /\ n = 301 =>
                  /\ Stride(n, 150) = 3
                  /\ Len(r) = 101
                  /\ \A k \in 1..101 : r[k] = out.arg[3 * (k - 1) + 1]

\* C13 witness: the 101 values kept of a stream of 301, the last of them the
\* value at index 300.
C13_Witness ==
    /\ out.op = "sample" /\ Len(out.arg) = 301
    /\ Len(out.res) = 101
    /\ out.res[1] = 0 /\ out.res[2] = 3 /\ out.res[101] = 300

\* a <= b and a = b * k for numbers that are fractions
NumLeq(a, b) == a.n * b.d <= b.n * a.d
NumIsTimes(a, k, b) == a.n * b.d = k * b.n * a.d

\* the horizontal numbers of the last sparkline, in order
SparkXs == [i \in DOMAIN out.pos |-> out.pos[i].x]
SparkYs == [i \in DOMAIN out.pos |-> out.pos[i].y]

\* the positions of a stream are fractions between 0 and width, the first 0,
\* each the same distance from the one before
EvenlySpaced(xs, width) ==
    /\ \A i \in DOMAIN xs :
          /\ xs[i].kind = "num"
          /\ NumLeq(Num(0, 1), xs[i]) /\ NumLeq(xs[i], Num(width, 1))
    /\ xs[1].kind = "num" /\ xs[1].n = 0
    /\ \A i \in DOMAIN xs : i >= 2 => NumIsTimes(xs[i], i - 1, xs[2])

\* C14 as stated: for every stream of n >= 1 values given to generateSparkline
\* the horizontal position of each index is a number in [0, width], the
\* first 0, the positions evenly spaced, no division by zero for any n; and
\* the text of each is that number to one decimal.
C14_HorizontalWellDefined ==
    (out.op = "generateSparkline" /\ Len(out.arg) >= 1) =>
        /\ EvenlySpaced(SparkXs, 300)
        /\ \A i \in DOMAIN out.line.points : out.line.points[i][1].text = "fixed"

\* C14, what the code does: for n >= 2 the positions are numbers in
\* [0, width], the first 0, the last width, evenly spaced; for n = 1 the one
\* position is 0/0, which is NaN, and its text in the polyline is "NaN".
C14_HorizontalFromTwo ==
    out.op = "generateSparkline" =>
        /\ Len(out.arg) >= 2 =>
              /\ EvenlySpaced(SparkXs, 300)
              /\ NumIsTimes(SparkXs[Len(out.arg)], 300, Num(1, 1))
              /\ \A i \in DOMAIN out.line.points :
                    out.line.points[i][1].text = "fixed"
              /\ out.line.points[1][1].tenths = 0
              /\ out.line.points[Len(out.arg)][1].tenths = 3000
        /\ Len(out.arg) = 1 =>
              /\ out.pos[1].x = NaN
              /\ out.line.points[1][1].text = "NaN"

\* C14 witness: the sparkline of a stream of one value, its one point at
\* "NaN" across and 40.0 down.
C14_Witness ==
    /\ out.op = "generateSparkline" /\ out.arg = <<7>>
    /\ out.line.tag = "polyline"
    /\ out.line.points = << <<[text |-> "NaN", tenths |-> 0],
                              [text |-> "fixed", tenths |-> 400]>> >>

\* C15: for a stream whose values are all the same, every vertical position
\* computed by generateSparkline is a number (the range used is 1, nothing is
\* divided by zero) and all of them are the one position y = height; for a
\* stream with two different values a least value is at y = height, a
\* greatest value at y = 0, and every y is in [0, height].
C15_VerticalRange ==
    (out.op = "generateSparkline" /\ Len(out.arg) >= 1) =>
        LET lo == Min(Values(out.arg))
            hi == Max(Values(out.arg))
            ys == SparkYs
            ts == [i \in DOMAIN out.line.points |-> out.line.points[i][2]]
        IN  /\ \A i \in DOMAIN ys : ys[i].kind = "num"
            /\ lo = hi =>
                  /\ \A i \in DOMAIN ys : NumIsTimes(ys[i], 40, Num(1, 1))
                  /\ \A i \in DOMAIN ts : ts[i] = [text |-> "fixed", tenths |-> 400]
            /\ lo # hi =>
                  /\ \A i \in DOMAIN ys :
                        /\ NumLeq(Num(0, 1), ys[i]) /\ NumLeq(ys[i], Num(40, 1))
                        /\ out.arg[i] = lo =>
                              /\ NumIsTimes(ys[i], 40, Num(1, 1))
                              /\ ts[i] = [text |-> "fixed", tenths |-> 400]
                        /\ out.arg[i] = hi =>
                              /\ ys[i].n = 0
                              /\ ts[i] = [text |-> "fixed", tenths |-> 0]

\* C15 witness: three equal values drawn as three points at 40.0 down.
C15_Witness ==
    /\ out.op = "generateSparkline" /\ out.arg = <<7, 7, 7>>
    /\ \A i \in 1..3 : out.line.points[i][2] = [text |-> "fixed", tenths |-> 400]
    /\ out.line.points[2][1] = [text |-> "fixed", tenths |-> 1500]

\* C16: for every non-empty stream and every constant, generateSparkline
\* gives the stream and the stream with the constant added to every value
\* the same sequence of points.
C16_ShiftInvariant ==
    (out.op = "generateSparkline" /\ Len(out.arg) >= 1) =>
        /\ out.shifted.tag = "polyline"
        /\ Len(out.shifted.points) = Len(out.arg)
        /\ out.shifted.points = out.line.points

\* C16 witness: the stream 0, 3, 7 and the stream 250, 253, 257 both drawn
\* with the middle point at 150.0 across and 22.9 down.
C16_Witness ==
    /\ out.op = "generateSparkline" /\ out.arg = <<0, 3, 7>> /\ shift = 250
    /\ out.line.points[2] = <<[text |-> "fixed", tenths |-> 1500],
                              [text |-> "fixed", tenths |-> 229]>>
    /\ out.shifted.points[2] = out.line.points[2]

\* the rows a pass has made its cards of
Selected == routesQuery(routes)

\* the cards of the pass are in the grid
CardsBuilt == render.pc \in {"yield", "returned"} /\ grid.text = ""

\* a text that is a line string: LINESTRING, an opening bracket, points of
\* two numbers each with commas between, a closing bracket
IsLineString(wkt) ==
    /\ ~wkt.null
    /\ Len(wkt.text) >= 3
    /\ wkt.text[1] = "LINESTRING"
    /\ wkt.text[Len(wkt.text)] = ")"
    /\ \E p \in 2..Len(wkt.text) :
          /\ wkt.text[p] = "("
          /\ \A i \in 2..(p - 1) : wkt.text[i] = " "
          /\ LET inner == Split(SubSeq(wkt.text, p + 1, Len(wkt.text) - 1), ",")
             IN  \A j \in DOMAIN inner :
                    /\ \A i \in DOMAIN inner[j] :
                          inner[j][i] \in DigitWords \cup {" "}
                    /\ Len(SelectSeq(inner[j], LAMBDA w : w \in DigitWords)) = 2

Queued(id) == \E j \in DOMAIN render.cardData : render.cardData[j].id = id
Mapped(id) == \E j \in DOMAIN maps : maps[j].id = id

\* within half a unit: 2 * |n/d - v| <= 1
Nearest(x, v) == 2 * Abs(x.n - v * x.d) <= x.d

\* the card at place i shows the name and date of its row, its averages and
\* its hours rounded, and a sparkline of each of its streams
CardShowsRow(i) ==
    LET row  == Selected[i]
        card == grid.cards[i]
    IN  /\ card.id = i - 1
        /\ card.title = row.activity_name /\ card.date = row.date
        /\ Nearest(OrZero(row.avg_watts), card.watts)
        /\ Nearest(OrZero(row.avg_hr), card.hr)
        /\ card.hours.text = "fixed"
        /\ Nearest(Num(10 * row.duration_seconds, 3600), card.hours.tenths)
        /\ Len(card.powerLine.points) = Len(ArrayFrom(row.watts_stream))
        /\ Len(card.hrLine.points) = Len(ArrayFrom(row.hr_stream))
        /\ card.powerLine.tag = "polyline" <=> Len(ArrayFrom(row.watts_stream)) > 0
        /\ card.hrLine.tag = "polyline" <=> Len(ArrayFrom(row.hr_stream)) > 0

\* C17 as stated: in a pass over N routes of which one has a geometry that
\* is not a well-formed line string, N cards are made; that route's geometry
\* parses to no point, so it is not queued for a map and gets none, while its
\* card shows its stats and both sparklines; the other routes have their
\* cards and are queued for their maps.
C17_MalformedOmitted ==
    (/\ CardsBuilt
     /\ Cardinality({i \in DOMAIN Selected :
                        ~IsLineString(Selected[i].wkt_geometry)}) = 1)
    => /\ Len(grid.cards) = Len(Selected)
       /\ \A i \in DOMAIN Selected :
             /\ CardShowsRow(i)
             /\ IF IsLineString(Selected[i].wkt_geometry)
                THEN Queued(i - 1)
                ELSE ~Queued(i - 1) /\ ~Mapped(i - 1)

\* C17, what the code does: every pass over N routes makes N cards, each
\* showing the stats and both sparklines of its own row; a route whose
\* geometry is null, empty or does not begin as a line string is not queued
\* for a map and gets none; a route whose text begins as a line string is
\* queued with the points read from it, numbers when the text is well formed
\* and NaN or undefined among them when it is not.
C17_CardPerRoute ==
    CardsBuilt =>
        /\ Len(grid.cards) = Len(Selected)
        /\ \A i \in DOMAIN Selected :
              LET wkt == Selected[i].wkt_geometry
              IN  /\ CardShowsRow(i)
                  /\ (wkt.null \/ wkt.text = <<>> \/ wkt.text[1] # "LINESTRING")
                        => ~Queued(i - 1) /\ ~Mapped(i - 1)
                  /\ (~wkt.null /\ wkt.text # <<>> /\ wkt.text[1] = "LINESTRING")
                        => \E j \in DOMAIN render.cardData :
                              LET d == render.cardData[j]
                              IN  /\ d.id = i - 1
                                  /\ Len(d.coords) >= 1
                                  /\ IsLineString(wkt) <=>
                                        \A c \in DOMAIN d.coords :
                                           /\ d.coords[c][1].kind = "num"
                                           /\ d.coords[c][2].kind = "num"

\* C17 witness: three cards, the first of a route whose geometry is a point:
\* it has its sparklines and no map, the two others are queued for theirs.
C17_Witness ==
    /\ CardsBuilt /\ Len(grid.cards) = 3
    /\ grid.cards[1].title = "spin"
    /\ grid.cards[1].powerLine.tag = "polyline"
    /\ grid.cards[1].hrLine.tag = "polyline"
    /\ grid.cards[1].hr = 126
    /\ Len(render.cardData) = 2
    /\ render.cardData[1].id = 1 /\ render.cardData[2].id = 2
    /\ render.pc = "returned"
    /\ ~Mapped(0) /\ Mapped(1) /\ Mapped(2)

\* the createMap calls that have not come to their end
InProgress == {j \in DOMAIN maps : maps[j].state = "applying"}

\* C20 as stated: the map initialisation of a record does not begin until
\* that of the record before it has completed: at most one map
\* initialisation is in progress at any time.
C20_OneInitAtATime ==
    /\ Cardinality(InProgress) <= 1
    /\ \A j \in DOMAIN maps : j < Len(maps) => maps[j].state # "applying"

\* C20 amended: map initialisations are begun one at a time, in the order of
\* the records, the first when the cards are in the grid and each further
\* one when the timer of the yield after the one before has fired; a step
\* that begins one leaves those begun before as they are, whether completed
\* or not.
C20_StartsInQueueOrder ==
    [][ Len(maps') > Len(maps)
        => /\ Len(maps') = Len(maps) + 1
           /\ SubSeq(maps', 1, Len(maps)) = maps
           /\ render.pc \in {"query", "yield"}
           /\ render.pc = "yield" => render'.cardData = render.cardData
           /\ render'.pc = "yield" /\ render'.k = Len(maps')
           /\ maps'[Len(maps')] =
                 [id |-> render'.cardData[render'.k].id,
                  coords |-> render'.cardData[render'.k].coords,
                  state |-> "applying"]
           /\ Len(maps) >= 1 => maps[Len(maps)].id < maps'[Len(maps')].id
           /\ \A j \in DOMAIN render'.cardData :
                 j < render'.k => Mapped(render'.cardData[j].id) ]_vars

\* C20 witness: the map of a second record has been begun while the map of
\* the first is still in progress.
C20_Witness ==
    /\ Len(maps) = 2
    /\ maps[1].state = "applying" /\ maps[2].state = "applying"
    /\ maps[1].id < maps[2].id
    /\ render.pc = "yield"

\* the optional routes file is answered with a bad status
RoutesAbsent == net.routes = "notok"

\* the labels of the default traces of the years AppRows has rows of
AppYears == <<YearArgs(0).label, YearArgs(1).label>>

\* the names of the traces of the store, in their order
TraceNames == [j \in DOMAIN traces |-> traces[j].name]

\* C18 (as the spec states it): when the routes view is never created,
\* renderWorkoutCards ends in the "no route data" state with zero cards
C18_DegradesToNoRouteData ==
    (RoutesAbsent /\ render.pc = "returned")
        => grid = [text |-> NoRouteData, cards |-> <<>>]

C18_SoftFailure ==
    RoutesAbsent =>
        /\ "routes" \notin db.views
        /\ grid.cards = <<>>
        /\ maps = <<>>
        /\ render.pc \in {"idle", "query", "returned"}
        /\ render.pc = "returned" => main.pc # "renderWorkoutCards"
        /\ main.pc = "failed" =>
              /\ main.err # "Error rendering workout cards:"
              /\ main.err = "Failed to fetch" => net.metrics = "rejected"
        /\ listeners <=> main.pc = "done"
        /\ main.pc = "done" =>
              /\ render.pc = "returned"
              /\ main.min = MinDate(metrics)
              /\ main.max = MaxDate(metrics)

C18_ListenersAfterDefaults ==
    (RoutesAbsent /\ ~listeners /\ listeners')
        => TraceNames' = IF metrics = AppRows THEN AppYears ELSE <<>>

\* C18 (what the code keeps of it): when the routes view is never created,
\* no card and no map is ever made, renderWorkoutCards returns without an
\* error reaching main.js, a failed start-up is the failure of another await,
\* and the listeners are registered only after the bounds were read and the
\* default traces of the years with rows were added
C18_StartupContinues ==
    []C18_SoftFailure /\ [][C18_ListenersAfterDefaults]_vars

C18_Witness ==
    /\ RoutesAbsent
    /\ listeners
    /\ render.pc = "returned"
    /\ grid = InitialGrid
    /\ TraceNames = AppYears
    /\ \E j \in DOMAIN console :
          console[j] = Logged("error", "Error rendering workout cards:")

\* the required metrics file is not fetched
MetricsUnavailable == net.metrics # "ok"

\* C19: if the metrics file cannot be fetched, loadData fails before a file
\* is registered, a connection opened or a view created; the start-up can
\* only end in the error status; no card is rendered, no trace is added or
\* asked for, and the listeners are never registered
C19_MetricsFetchFatal ==
    MetricsUnavailable =>
        /\ ~db.conn /\ db.views = {} /\ db.registered = {}
        /\ render.pc = "idle" /\ grid = InitialGrid /\ maps = <<>>
        /\ traces = <<>> /\ distTraces = <<>> /\ pending = <<>>
        /\ ~listeners
        /\ main.pc \in {"selectBundle", "instantiate", "fetchMetrics", "failed"}
        /\ main.pc = "failed" =>
              /\ status.color = "red"
              /\ status.text = "Error: " \o main.err
              /\ main.err \in {"selectBundle", "instantiate",
                               MetricsFetchError, "Failed to fetch"}

C19_Witness ==
    /\ net.metrics = "notok"
    /\ main.pc = "failed"
    /\ status.text = "Error: Failed to fetch fitness_metrics.parquet"
    /\ status.color = "red"
    /\ ~listeners

FailedMaps == {j \in DOMAIN maps : maps[j].state = "failed"}

MapErrors == SelectSeq(console, LAMBDA l : l = Logged("error", "createMap"))

C21_StartsGoOn ==
    /\ render.pc = "yield" => Len(maps) = render.k
    /\ (render.pc = "returned" /\ grid.text = "")
          => Len(maps) = Len(render.cardData)
    /\ \A j \in DOMAIN maps : maps[j].id = render.cardData[j].id
    /\ render.pc = "yield" => ENABLED TimerFires
    /\ Len(MapErrors) = Cardinality(FailedMaps)
    /\ FailedMaps # {} =>
          /\ main.pc \in {"renderWorkoutCards", "getBounds"}
          /\ main.err = ""
          /\ render.pc = "returned" => main.pc = "getBounds"
          /\ \A j \in DOMAIN console :
                console[j].what # "Error rendering workout cards:"

C21_FailureStaysLocal ==
    \A j \in DOMAIN maps :
       (maps[j].state = "applying" /\ j \in DOMAIN maps'
           /\ maps'[j].state = "failed")
       => /\ console' = Append(console, Logged("error", "createMap"))
          /\ maps' = [maps EXCEPT ![j].state = "failed"]
          /\ UNCHANGED <<render, grid, main, status>>

\* C21: a map initialisation that fails is logged once, by its own catch,
\* and changes nothing else: the pass and the other maps are as they were,
\* the timer of the yield still fires, so the map of every later queued
\* record is started, and renderWorkoutCards returns to main.js, which goes
\* on to read the bounds, without an error of its own
C21_MapFailureCaught ==
    []C21_StartsGoOn /\ [][C21_FailureStaysLocal]_vars

\* C21 witness: the pass has returned after the map of its first record
\* failed; the maps of the two later records were started all the same
C21_Witness ==
    /\ render.pc = "returned"
    /\ main.pc = "getBounds"
    /\ Len(maps) = 3
    /\ maps[1].state = "failed"
    /\ maps[2].state = "ready"
    /\ maps[3].state = "applying"
    /\ Len(MapErrors) = 1

\* a <= b for two numbers that are fractions
AtMost(a, b) == a.kind = "num" /\ b.kind = "num" /\ ~Less(b, a)

\* every point of the last path has the same x, the same y
ZeroWidth == \A i, j \in DOMAIN svgPath.points :
                svgPath.points[i].x = svgPath.points[j].x
ZeroHeight == \A i, j \in DOMAIN svgPath.points :
                 svgPath.points[i].y = svgPath.points[j].y

\* C22: for the points of a well-formed line string, every sx is a number
\* between 0 and the width and every sy a number between 0 and the height,
\* as computed and as printed; of two points the one with the greater
\* latitude never has the greater sy; and on an axis where all points agree
\* the range is 1, so nothing is divided by zero: every sx is 0, every sy
\* the height
C22_PathInViewport ==
    (svgPath.done /\ IsLineString(geometry)) =>
        LET pts == svgPath.points
            at  == svgPath.pos.at
            d   == svgPath.res.d
        IN  /\ Len(pts) >= 1
            /\ svgPath.res.tag = "path"
            /\ Len(d) = Len(pts) /\ Len(at) = Len(pts)
            /\ \A i \in DOMAIN pts :
                  /\ d[i][1] = IF i = 1 THEN "M" ELSE "L"
                  /\ AtMost(Num(0, 1), at[i].sx)
                  /\ AtMost(at[i].sx, Num(PathWidth, 1))
                  /\ AtMost(Num(0, 1), at[i].sy)
                  /\ AtMost(at[i].sy, Num(PathHeight, 1))
                  /\ d[i][2].text = "fixed" /\ d[i][3].text = "fixed"
                  /\ d[i][2].tenths \in 0..(10 * PathWidth)
                  /\ d[i][3].tenths \in 0..(10 * PathHeight)
            /\ \A i, j \in DOMAIN pts :
                  Less(pts[j].y, pts[i].y)
                     => /\ AtMost(at[i].sy, at[j].sy)
                        /\ d[i][3].tenths <= d[j][3].tenths
            /\ ZeroWidth =>
                  /\ svgPath.pos.rangeX = Num(1, 1)
                  /\ \A i \in DOMAIN pts : at[i].sx = Num(0, 1)
            /\ ZeroHeight =>
                  /\ svgPath.pos.rangeY = Num(1, 1)
                  /\ \A i \in DOMAIN pts : at[i].sy = Num(PathHeight, 1)

\* C22 witness: the path of three points on one meridian at three latitudes:
\* a box of zero width, and the northernmost point drawn highest
C22_Witness ==
    /\ svgPath.done
    /\ IsLineString(geometry)
    /\ Len(svgPath.points) = 3
    /\ ZeroWidth /\ ~ZeroHeight
    /\ Less(svgPath.points[1].y, svgPath.points[2].y)
    /\ Less(svgPath.points[2].y, svgPath.points[3].y)
    /\ svgPath.res.d[3][3].tenths < svgPath.res.d[1][3].tenths
    /\ svgPath.res.d[2][2].tenths = 0

\* C23: in every state the efficiency list and the distribution list have
\* the same length, and the entries at each index have the same label and
\* the same color
C23_ListsAligned ==
    /\ Len(traces) = Len(distTraces)
    /\ \A i \in DOMAIN traces :
          /\ traces[i].name = distTraces[i].name
          /\ traces[i].color = distTraces[i].color

\* C23 witness: two traces of different labels and colors are in both
\* lists, the second put there by a call that a younger call had overtaken
C23_Witness ==
    /\ Len(traces) = 2
    /\ traces[1].name # traces[2].name
    /\ traces[1].color # traces[2].color
    /\ ev.op = "settle" /\ ev.outcome = "appended"
    /\ ev.call.hist.overtaken

\* a step starts a map initialisation
StartsMap == Len(maps') > Len(maps)

C24_CardsBeforeMaps ==
    Len(maps) >= 1 =>
        /\ CardsBuilt
        /\ Len(grid.cards) = Len(Selected)
        /\ \A i \in DOMAIN grid.cards : grid.cards[i].id = i - 1
        /\ \A j \in DOMAIN maps : maps[j].id \in 0..(Len(grid.cards) - 1)

C24_YieldAfterEachStart ==
    StartsMap =>
        /\ Len(maps') = Len(maps) + 1
        /\ Len(grid'.cards) = Len(Selected)
        /\ render'.pc = "yield"
        /\ Len(maps) >= 1 =>
              /\ render.pc = "yield"
              /\ grid' = grid
              /\ maps[Len(maps)].id < maps'[Len(maps')].id

\* C24: a map initialisation is started only when the card of every selected
\* route is in the grid; each step starts at most one, leaves the pass
\* suspended at the timer of its yield, and every start but the first is
\* made when that timer has fired; the starts follow the order of the cards
C24_DomFirstThenYield ==
    []C24_CardsBeforeMaps /\ [][C24_YieldAfterEachStart]_vars

\* C24 witness: three cards are in the grid, the maps of the first two have
\* been started and the pass waits at its yield before starting the third
C24_Witness ==
    /\ Len(grid.cards) = 3
    /\ Len(render.cardData) = 3
    /\ render.pc = "yield"
    /\ render.k = 2
    /\ Len(maps) = 2
    /\ maps[1].id = 0 /\ maps[2].id = 1

\* the label of the default trace i years before the current year
YearLabel(i) == ToString(CurrentYear - i)

\* the arguments the start-up gives addTrace for that year
YearCall(i) ==
    Args(YearLabel(i), (CurrentYear - i) * 10000 + 101,
         (CurrentYear - i) * 10000 + 1231, TRUE)

\* the store holds default traces only: of years not before the one being
\* asked for, later years first, with the colors of the palette in its order
DefaultTracesInOrder ==
    /\ \A j \in DOMAIN traces :
          /\ traces[j].color = COLORS[j]
          /\ distTraces[j].color = COLORS[j]
          /\ \E a \in 0..(DefaultYears - 1) : traces[j].name = YearLabel(a)
    /\ \A j, k \in DOMAIN traces :
          j < k => \E a, b \in 0..(DefaultYears - 1) :
                      /\ a < b
                      /\ traces[j].name = YearLabel(a)
                      /\ traces[k].name = YearLabel(b)

C25_StartupAlone ==
    ~listeners =>
        /\ Len(pending) <= 1
        /\ \A i \in DOMAIN pending :
              /\ main.pc = "addTrace"
              /\ pending[i].args = YearCall(main.i)
        /\ ev.alert = NoAlert
        /\ ev.op # "clearTraces"
        /\ DefaultTracesInOrder

C25_OneAfterAnother ==
    /\ (~listeners /\ Len(pending') > Len(pending)) =>
          /\ pending = <<>>
          /\ Len(pending') = 1
          /\ main'.pc = "addTrace"
          /\ main'.i = IF main.pc = "resume" THEN main.i + 1 ELSE 0
          /\ main.pc = "resume" => ev.op = "settle" /\ ev.args = YearCall(main.i)
          /\ pending'[1].args = YearCall(main'.i)
    /\ (~listeners /\ listeners') =>
          /\ pending = <<>>
          /\ UNCHANGED <<traces, distTraces>>
          /\ main'.min # EmptyDate =>
                /\ main.pc = "resume"
                /\ main.i = DefaultYears - 1
    /\ (ev' # ev /\ ev'.op = "clearTraces") => listeners
    /\ (ev' # ev /\ ev'.op = "addTrace" /\ ~ev'.args.silent) => listeners

\* C25: while the listeners are not registered at most one addTrace call is
\* waiting, a silent call of the start-up for the year main.js is at; the
\* call for a year is made only when the call for the year before has gone
\* on to its end, the first for the current year; nothing is alerted and
\* nothing cleared; the traces in the store are default traces in descending
\* order of year with the colors of the palette in its order; and the
\* listeners are registered with no call waiting, after the last of the
\* three calls when the bounds have a least date
C25_DefaultsThenListeners ==
    []C25_StartupAlone /\ [][C25_OneAfterAnother]_vars

\* C25 witness: the listeners have just been registered; the calls for the
\* current year and the year before each left a trace, the silent call for
\* the year before those found no rows and was the last to settle
C25_Witness ==
    /\ listeners
    /\ main.pc = "done" /\ main.i = DefaultYears - 1
    /\ TraceNames = <<YearLabel(0), YearLabel(1)>>
    /\ traces[1].color = COLORS[1] /\ traces[2].color = COLORS[2]
    /\ ev.op = "settle" /\ ev.outcome = "empty"
    /\ ev.args = YearCall(2)
    /\ ev.alert = NoAlert

\* the labels onAddTrace makes up
AutoLabels == {"Trace " \o ToString(n) : n \in 1..(MaxClickTraces + 1)}

\* C26 (as stated): the auto-generated labels of the traces that are in the
\* store together are distinct
C26_AutoLabelsDistinct ==
    \A i, j \in DOMAIN traces :
       (i < j /\ traces[i].name \in AutoLabels /\ traces[j].name \in AutoLabels)
          => traces[i].name # traces[j].name

C26_LabelAtClick ==
    /\ Len(pending') > Len(pending) =>
          LET call == pending'[Len(pending')]
          IN  /\ call.args.label \in
                    {"A", "Trace " \o ToString(Len(traces) + 1)}
              /\ call.hist.k = Len(traces)
              /\ UNCHANGED <<traces, distTraces>>
    /\ Len(traces') > Len(traces) =>
          LET call == ev'.call
          IN  /\ traces'[Len(traces')].name = call.args.label
              /\ call.args.label \in AutoLabels
                    => call.args.label = "Trace " \o ToString(call.hist.k + 1)

\* C26 (what the code keeps of it): a label made up for a click is "Trace "
\* and one more than the size of the store at the click; the call keeps it
\* whatever happens to the store before its results are in, so the number in
\* the label of a trace is one more than the size the store had at the click,
\* not the place the trace takes in the store
C26_LabelFromSizeAtClick == [][C26_LabelAtClick]_vars

\* C26 witness: two clicks with no label while the store is empty, the
\* second before the results of the first are in: both calls wait with the
\* label "Trace 1"
C26_Witness ==
    /\ Len(pending) = 2
    /\ traces = <<>>
    /\ pending[1].args.label = "Trace 1"
    /\ pending[2].args.label = "Trace 1"

\* C27: sample(stream, 150) of a stream that is not empty begins with the
\* first value of the stream; it never has more than 150 values; and of a
\* stream of n > 150 values it has ceil(n / s) values, s being ceil(n / 150),
\* which is more than half of 150
C27_SampleLength ==
    out.op = "sample" =>
        LET n == Len(out.arg)
            m == Len(out.res)
        IN  /\ n >= 1 => m >= 1 /\ out.res[1] = out.arg[1]
            /\ m <= SampleTarget
            /\ n > SampleTarget =>
                  /\ \E s \in 1..n :
                        /\ (s - 1) * SampleTarget < n /\ n <= s * SampleTarget
                        /\ (m - 1) * s < n /\ n <= m * s
                  /\ 2 * m > SampleTarget

\* C27 witness: a stream of 151 values is sampled to 76, its first value
\* first
C27_Witness ==
    /\ out.op = "sample"
    /\ Len(out.arg) = SampleTarget + 1
    /\ Len(out.res) = 76
    /\ out.res[1] = out.arg[1]
    /\ out.res[76] = out.arg[151]

====
